---- MODULE Spec2Model ----
(***************************************************************************)
(* Gamification ledger and eligibility engine of snappie-api-express.      *)
(*                                                                         *)
(* The durable state is a PostgreSQL database reached through Sequelize    *)
(* (src/config/database.js: dialect postgres, default READ COMMITTED).     *)
(* Every request handler is a process; every awaited database statement    *)
(* is one step, so the steps of concurrent requests interleave freely.     *)
(*                                                                         *)
(* A statement that carries { transaction } works on that transaction:     *)
(* rows it inserts carry the transaction's xid and are invisible to        *)
(* others until commit; a row it updates is locked until commit or         *)
(* rollback.  A statement without { transaction } runs on a connection of  *)
(* its own and is committed at once.                                       *)
(***************************************************************************)
EXTENDS Integers, Sequences, FiniteSets, TLC

(* ------------------------------ bounds --------------------------------- *)
MaxCalls == 2     \* requests served in one behaviour
MaxFaults == 1    \* database faults injected in one behaviour
InitCoin == 1     \* the balance every user starts with
MaxAmount == 1    \* the largest amount a caller passes to a balance mutator
InitStock == 1    \* the stock of the limited reward
MonthTicks == 3   \* clock ticks in a calendar month
SecondTicks == 2  \* clock ticks in a second
MaxClock == 3     \* the clock stops here

(* Two workers serve requests concurrently, for two users; user 0 has no   *)
(* row.                                                                    *)
Procs == {1, 2}
Users == {1, 2}
NoUser == 0
NumProcs == Cardinality(Procs)
NumUsers == Cardinality(Users)

(* Transaction ids: 0 marks a committed row; every request owns the        *)
(* transaction of the handler it runs (Outer) and the transaction of the   *)
(* balance mutator it calls (Inner).                                       *)
Committed == 0
Outer(p) == p
Inner(p) == NumProcs + p
TxIds == 1..(2 * NumProcs)
TxOf(p) == {Inner(p), Outer(p)}

VARIABLES
  users,      \* committed users rows: totalCoin, totalExp, ... per user
  txUsers,    \* per transaction and user: <<>> or <<row>>, the row version it wrote
  tables,     \* per table: its rows, each with the xid of the transaction that wrote it
  seq,        \* per table: the next value of its id sequence
  rewards,    \* committed rewards rows: coin_requirement, stock, status per reward
  clock,      \* the wall clock, in ticks
  pc,         \* per request: its position in the handler
  req,        \* per request: the operation and its arguments
  arg,        \* per request: the arguments of the balance mutator it is in
  loc,        \* per request: the handler's local variables
  result,     \* per request: "ok" or the error thrown
  frame,      \* the request no other has interleaved with since its call began, whether
              \* no other request was in progress then, and the committed database then
  ncalls,     \* calls started
  nfaults     \* database faults injected

vars == <<users, txUsers, tables, seq, rewards, clock, pc, req, arg, loc, result, frame,
          ncalls, nfaults>>

(* What the balance mutators never touch.                                  *)
env == <<rewards, clock>>

(* ------------------------------ rows ----------------------------------- *)
Visible(tbl, t) == {r \in tbl : r.xid = Committed \/ r.xid = t}
CommittedRows(tbl) == {r \in tbl : r.xid = Committed}

RECURSIVE SumAmounts(_)
SumAmounts(rows) ==
  IF rows = {} THEN 0
  ELSE LET r == CHOOSE x \in rows : TRUE
       IN r.amount + SumAmounts(rows \ {r})

(* The users row a statement of transaction t reads: its own version if it *)
(* wrote one, the committed row otherwise (t = Committed: no transaction). *)
UserRow(u, t) ==
  IF t # Committed /\ txUsers[t][u] # <<>> THEN txUsers[t][u][1] ELSE users[u]

(* An UPDATE of users row u waits while another transaction holds the row. *)
RowFree(u, t) == \A o \in TxIds \ {t} : txUsers[o][u] = <<>>

NoTxUsers == [t \in TxIds |-> [u \in Users |-> <<>>]]

(* Model.create(values, { transaction: t }): INSERT with the next id.      *)
InsertRow(tbl, t, values) ==
  /\ tables' = [tables EXCEPT ![tbl] = @ \cup {[id |-> seq[tbl], xid |-> t] @@ values}]
  /\ seq' = [seq EXCEPT ![tbl] = @ + 1]

(* instance.increment(field, { by, transaction: t }):                      *)
(* UPDATE users SET field = field + by WHERE id = u.                       *)
IncrementUser(t, u, field, by) ==
  /\ RowFree(u, t)
  /\ txUsers' = [txUsers EXCEPT ![t][u] = <<[UserRow(u, t) EXCEPT ![field] = @ + by]>>]

(* transaction.commit(): the rows and row versions of t become committed.  *)
CommitTx(t) ==
  /\ tables' = [n \in DOMAIN tables |->
                  {[r EXCEPT !.xid = Committed] : r \in {x \in tables[n] : x.xid = t}}
                  \cup {r \in tables[n] :
                          /\ r.xid # t
                          /\ ~(r.xid = Committed
                               /\ \E o \in tables[n] : o.xid = t /\ o.id = r.id)}]
  /\ users' = [u \in Users |-> UserRow(u, t)]
  /\ txUsers' = [txUsers EXCEPT ![t] = [u \in Users |-> <<>>]]

(* The version of row id of a table that a statement of transaction t     *)
(* reads: the one t wrote if there is one, the committed one otherwise.    *)
CurrentRow(tbl, id, t) ==
  IF \E r \in tables[tbl] : r.id = id /\ r.xid = t /\ t # Committed
  THEN CHOOSE r \in tables[tbl] : r.id = id /\ r.xid = t
  ELSE CHOOSE r \in tables[tbl] : r.id = id /\ r.xid = Committed

(* An UPDATE of row id waits while another transaction holds a version.    *)
RowFreeIn(tbl, id, t) ==
  \A r \in tables[tbl] : r.id = id => r.xid \in {Committed, t}

(* instance.update(values, { transaction: t }) and Model.update: the row   *)
(* version t sees is replaced (t = Committed: the committed row, at once). *)
UpdateRow(tbl, t, id, new) ==
  /\ RowFreeIn(tbl, id, t)
  /\ tables' = [tables EXCEPT ![tbl] =
                  {r \in @ : ~(r.id = id /\ r.xid = t)} \cup {[new EXCEPT !.xid = t]}]

(* The rows of a table that a query of transaction t returns: for every id *)
(* the version t reads, unless a DELETE made it a dead one.                *)
LiveRows(tbl, t) ==
  {r \in Visible(tables[tbl], t) : r = CurrentRow(tbl, r.id, t) /\ ~r.deleted}

(* instance.destroy({ transaction: t }): DELETE ... WHERE id; it waits     *)
(* while another transaction holds a version of the row, and deletes       *)
(* nothing, without an error, when the row is gone by then.                *)
DeleteRow(tbl, t, id) ==
  /\ RowFreeIn(tbl, id, t)
  /\ tables' = IF CurrentRow(tbl, id, t).deleted THEN tables
               ELSE [tables EXCEPT ![tbl] =
                       {r \in @ : ~(r.id = id /\ r.xid = t)}
                       \cup {[CurrentRow(tbl, id, t) EXCEPT !.xid = t, !.deleted = TRUE]}]

(* transaction.rollback() of every transaction in ts.                      *)
RollbackTx(ts) ==
  /\ tables' = [n \in DOMAIN tables |-> {r \in tables[n] : r.xid \notin ts}]
  /\ txUsers' = [t \in TxIds |-> IF t \in ts THEN [u \in Users |-> <<>>] ELSE txUsers[t]]

(* ------------------------------ catalog -------------------------------- *)
(* Place 1 is active and place 2 is not; place 0 has no row.  Every place  *)
(* is configured with a coin reward of 2 and an exp reward of 3.           *)
Places == {1, 2}
NoPlace == 0
PlaceRow(pl) == [status |-> pl = 1, coinReward |-> 2, expReward |-> 3]

(* instance[name] in JavaScript: the value of the attribute of that name,  *)
(* <<v>>, and undefined, <<>>, when the model defines no such attribute.   *)
Property(row, name) == IF name \in DOMAIN row THEN <<row[name]>> ELSE <<>>

(* The reviews there are at the start, made through ReviewService: place 1 *)
(* has a review of rating 4 by user 2 and one of rating 5 by user 3, who   *)
(* makes no request here, and a review of rating 1 that user 3 made the    *)
(* month before and has deleted (status false); the statistics of the      *)
(* places are those updatePlaceStatistics wrote last (avgRating is kept in *)
(* hundredths: DECIMAL(3, 2)).                                             *)
OtherUser == 3
InitReviews ==
  {[id |-> 1, xid |-> Committed, user_id |-> 2, place_id |-> 1, rating |-> 4,
    status |-> TRUE, created_at |-> 0],
   [id |-> 2, xid |-> Committed, user_id |-> OtherUser, place_id |-> 1, rating |-> 5,
    status |-> TRUE, created_at |-> 0],
   [id |-> 3, xid |-> Committed, user_id |-> OtherUser, place_id |-> 1, rating |-> 1,
    status |-> FALSE, created_at |-> 0 - MonthTicks]}
InitPlaces ==
  {[id |-> 1, xid |-> Committed, avgRating |-> 450, totalReview |-> 2],
   [id |-> 2, xid |-> Committed, avgRating |-> 0, totalReview |-> 0]}

(* The follow relation at the start: user 1 follows user 2.  A row that a  *)
(* DELETE removed stays in its table as a dead version (deleted), which no *)
(* query returns.                                                          *)
InitFollows ==
  {[id |-> 1, xid |-> Committed, follower_id |-> 1, following_id |-> 2, deleted |-> FALSE]}

(* There is one post, which user 1 likes; post 0 has no row.               *)
Posts == {1}
NoPost == 0
InitLikes ==
  {[id |-> 1, xid |-> Committed, user_id |-> 1, related_to_id |-> 1, deleted |-> FALSE]}
InitPosts ==
  {[id |-> pt, xid |-> Committed,
    total_like |-> Cardinality({l \in InitLikes : l.related_to_id = pt})] : pt \in Posts}

(* Achievement 1 pays a coin and achievement 2 keeps the model's default   *)
(* coin_reward of 0; likewise the challenges' exp_reward.                  *)
Achievements == {1, 2}
AchievementRow(a) == [coin_reward |-> IF a = 1 THEN 1 ELSE 0]
Challenges == {1, 2}
ChallengeRow(c) == [exp_reward |-> IF c = 1 THEN 1 ELSE 0]

(* Reward 1 has a limited stock, reward 2 has stock null (<<>>: unlimited), *)
(* reward 3 is not active, and reward 4 is free (coin_requirement 0, the   *)
(* least value the model's validation admits) with one more in stock.      *)
Rewards == {1, 2, 3, 4}
InitRewards ==
  [r \in Rewards |->
     [coin_requirement |-> IF r = 4 THEN 0 ELSE 1,
      stock |-> IF r = 2 THEN <<>> ELSE IF r = 4 THEN <<InitStock + 1>> ELSE <<InitStock>>,
      status |-> r # 3]]

(* ------------------------------ requests ------------------------------- *)
NoReq == [op |-> "none", user_id |-> NoUser, target |-> 0]
NoArg == [user_id |-> NoUser, amount |-> 0, related_to_type |-> "none", related_to_id |-> 0]
Db == [users |-> users, rewards |-> rewards,
       tables |-> [n \in DOMAIN tables |-> CommittedRows(tables[n])]]
NoLoc == [totalCoin |-> 0, totalExp |-> 0, totalCheckin |-> 0, checkin_id |-> 0,
          review_id |-> 0, place_id |-> 0, avgRating |-> 0, totalReviews |-> 0,
          totalFollowing |-> 0, totalFollower |-> 0, follow_id |-> 0,
          total_like |-> 0, like_id |-> 0, coin_reward |-> <<>>, exp_reward |-> <<>>,
          rating |-> 0]
NoFrame == [p |-> 0, quiet |-> FALSE, db |-> <<>>]

(* Bookkeeping of a step of request p: the frame survives only the steps   *)
(* of the request it belongs to.                                           *)
Step(p) == frame' = IF frame.p = p THEN frame ELSE NoFrame

(* A request arrives: it is handed to an idle worker.                      *)
Begin(p, r, a, at) ==
  /\ pc[p] = "idle"
  /\ ncalls < MaxCalls
  /\ ncalls' = ncalls + 1
  /\ req' = [req EXCEPT ![p] = r]
  /\ arg' = [arg EXCEPT ![p] = a]
  /\ pc' = [pc EXCEPT ![p] = at]
  /\ frame' = [p |-> p, quiet |-> \A q \in Procs \ {p} : pc[q] = "idle", db |-> Db]
  /\ UNCHANGED <<users, txUsers, tables, seq, result, nfaults, env, loc>>

(* The handler returns: the worker is free for the next request.           *)
Return(p) ==
  /\ pc[p] = "done"
  /\ pc' = [pc EXCEPT ![p] = "idle"]
  /\ req' = [req EXCEPT ![p] = NoReq]
  /\ arg' = [arg EXCEPT ![p] = NoArg]
  /\ result' = [result EXCEPT ![p] = "none"]
  /\ loc' = [loc EXCEPT ![p] = NoLoc]
  /\ Step(p)
  /\ UNCHANGED <<users, txUsers, tables, seq, ncalls, nfaults, env>>

(* An exception reaching the handler's catch block: every transaction the  *)
(* request has open is rolled back and the error is rethrown.              *)
Throw(p, err) ==
  /\ RollbackTx(TxOf(p))
  /\ pc' = [pc EXCEPT ![p] = "done"]
  /\ result' = [result EXCEPT ![p] = err]
  /\ Step(p)
  /\ UNCHANGED <<users, seq, req, arg, ncalls, env, loc>>

(* Where a handler goes on when the balance mutator it awaits returns     *)
(* from its commit at.                                                     *)
After(op, at) ==
  CASE op = "grantAchievement" -> "ga_commit"
    [] op = "completeChallenge" -> "ch_commit"
    [] op = "redeemReward" -> "rr_decrement"
    [] op = "createReview" /\ at = "ac_commit" -> "cr_exp"
    [] op = "createReview" /\ at = "ae_commit" -> "cr_commit"
    [] OTHER -> "done"

MutatorReturns(p) ==
  /\ pc' = [pc EXCEPT ![p] = After(req[p].op, pc[p])]
  /\ result' = [result EXCEPT ![p] = IF After(req[p].op, pc[p]) = "done" THEN "ok" ELSE @]

Init ==
  /\ users = [u \in Users |->
                [totalCoin |-> InitCoin, totalExp |-> 0, totalCheckin |-> 0,
                 totalAchievement |-> 0, totalChallenge |-> 0, totalReview |-> 0,
                 totalFollowing |-> Cardinality({f \in InitFollows : f.follower_id = u}),
                 totalFollower |-> Cardinality({f \in InitFollows : f.following_id = u})]]
  /\ txUsers = NoTxUsers
  /\ tables = [coinTx |-> {[id |-> u, xid |-> Committed, user_id |-> u, amount |-> InitCoin,
                            related_to_type |-> "AdminGrant", related_to_id |-> 0] : u \in Users},
               expTx |-> {}, checkins |-> {}, userAchievements |-> {},
               userChallenges |-> {}, userRewards |-> {},
               reviews |-> InitReviews, places |-> InitPlaces,
               userFollows |-> InitFollows, userLikes |-> InitLikes, posts |-> InitPosts]
  /\ seq = [coinTx |-> NumUsers + 1, expTx |-> 1, checkins |-> 1, userAchievements |-> 1,
            userChallenges |-> 1, userRewards |-> 1, reviews |-> Cardinality(InitReviews) + 1,
            userFollows |-> Cardinality(InitFollows) + 1,
            userLikes |-> Cardinality(InitLikes) + 1]
  /\ rewards = InitRewards
  /\ clock = 0
  /\ loc = [p \in Procs |-> NoLoc]
  /\ pc = [p \in Procs |-> "idle"]
  /\ req = [p \in Procs |-> NoReq]
  /\ arg = [p \in Procs |-> NoArg]
  /\ result = [p \in Procs |-> "none"]
  /\ frame = NoFrame
  /\ ncalls = 0
  /\ nfaults = 0

(* ------------------------------ addCoins ------------------------------- *)
(* GamificationService.addCoins(user_id, amount, relatedObject)            *)
AddCoinsCall(p) ==
  \E u \in Users \cup {NoUser}, a \in 0..MaxAmount :
    Begin(p, [op |-> "addCoins", user_id |-> u, target |-> 0],
          [user_id |-> u, amount |-> a, related_to_type |-> "AdminGrant", related_to_id |-> 0],
          "ac_enter")

(* amount <= 0 is refused; the transaction opens; User.findByPk *)
AddCoinsEnter(p) ==
  /\ pc[p] = "ac_enter"
  /\ IF arg[p].amount <= 0 THEN Throw(p, "AmountInvalid")
     ELSE IF arg[p].user_id \notin Users THEN Throw(p, "UserNotFound")
     ELSE /\ pc' = [pc EXCEPT ![p] = "ac_increment"]
          /\ Step(p)
          /\ UNCHANGED <<users, txUsers, tables, seq, req, arg, result, ncalls, env, loc>>
  /\ UNCHANGED nfaults

AddCoinsIncrementNoTransaction(p) ==
  /\ pc[p] = "ac_increment"
  /\ RowFree(arg[p].user_id, Committed)
  /\ users' = [users EXCEPT ![arg[p].user_id].totalCoin = @ + arg[p].amount]
  /\ pc' = [pc EXCEPT ![p] = "ac_create"]
  /\ Step(p)
  /\ UNCHANGED <<txUsers, tables, seq, req, arg, result, ncalls, nfaults, env, loc>>

(* user.increment('totalCoin', { by: amount, transaction }) *)
AddCoinsIncrement(p) ==
  /\ pc[p] = "ac_increment"
  /\ IncrementUser(Inner(p), arg[p].user_id, "totalCoin", arg[p].amount)
  /\ pc' = [pc EXCEPT ![p] = "ac_create"]
  /\ Step(p)
  /\ UNCHANGED <<users, tables, seq, req, arg, result, ncalls, nfaults, env, loc>>

(* CoinTransaction.create({ user_id, amount, related_to_* }, { transaction }) *)
AddCoinsCreate(p) ==
  /\ pc[p] = "ac_create"
  /\ InsertRow("coinTx", Inner(p),
               [user_id |-> arg[p].user_id, amount |-> arg[p].amount,
                related_to_type |-> arg[p].related_to_type,
                related_to_id |-> arg[p].related_to_id])
  /\ pc' = [pc EXCEPT ![p] = "ac_commit"]
  /\ Step(p)
  /\ UNCHANGED <<users, txUsers, req, arg, result, ncalls, nfaults, env, loc>>

(* transaction.commit(); return coinTransaction *)
AddCoinsCommit(p) ==
  /\ pc[p] = "ac_commit"
  /\ CommitTx(Inner(p))
  /\ MutatorReturns(p)
  /\ Step(p)
  /\ UNCHANGED <<seq, req, arg, ncalls, nfaults, env, loc>>

(* ------------------------------ useCoins ------------------------------- *)
(* GamificationService.useCoins(user_id, amount, relatedObject)            *)
UseCoinsCall(p) ==
  \E u \in Users \cup {NoUser}, a \in 1..MaxAmount :
    Begin(p, [op |-> "useCoins", user_id |-> u, target |-> 0],
          [user_id |-> u, amount |-> a, related_to_type |-> "AdminGrant", related_to_id |-> 0],
          "uc_find")

(* The balance test of useCoins, on the row User.findByPk(user_id) read.   *)
EnoughCoinsNoTest(row, amount) == TRUE
EnoughCoins(row, amount) == ~(row.totalCoin < amount)

(* User.findByPk(user_id), outside any transaction; the balance test; the  *)
(* transaction opens.                                                      *)
UseCoinsFind(p) ==
  /\ pc[p] = "uc_find"
  /\ IF arg[p].user_id \notin Users THEN Throw(p, "UserNotFound")
     ELSE IF ~EnoughCoins(UserRow(arg[p].user_id, Committed), arg[p].amount)
     THEN Throw(p, "InsufficientFunds")
     ELSE /\ pc' = [pc EXCEPT ![p] = "uc_decrement"]
          /\ Step(p)
          /\ UNCHANGED <<users, txUsers, tables, seq, req, arg, result, ncalls, env, loc>>
  /\ UNCHANGED nfaults

(* user.decrement('totalCoin', { by: amount, transaction }):               *)
(* UPDATE users SET total_coin = total_coin - amount.                      *)
UseCoinsDecrement(p) ==
  /\ pc[p] = "uc_decrement"
  /\ IncrementUser(Inner(p), arg[p].user_id, "totalCoin", 0 - arg[p].amount)
  /\ pc' = [pc EXCEPT ![p] = "uc_create"]
  /\ Step(p)
  /\ UNCHANGED <<users, tables, seq, req, arg, result, ncalls, nfaults, env, loc>>

UseCoinsCreateUnsigned(p) ==
  /\ pc[p] = "uc_create"
  /\ InsertRow("coinTx", Inner(p),
               [user_id |-> arg[p].user_id, amount |-> arg[p].amount,
                related_to_type |-> arg[p].related_to_type,
                related_to_id |-> arg[p].related_to_id])
  /\ pc' = [pc EXCEPT ![p] = "uc_commit"]
  /\ Step(p)
  /\ UNCHANGED <<users, txUsers, req, arg, result, ncalls, nfaults, env, loc>>

(* CoinTransaction.create({ user_id, amount: -amount, ... }, { transaction }) *)
UseCoinsCreate(p) ==
  /\ pc[p] = "uc_create"
  /\ InsertRow("coinTx", Inner(p),
               [user_id |-> arg[p].user_id, amount |-> 0 - arg[p].amount,
                related_to_type |-> arg[p].related_to_type,
                related_to_id |-> arg[p].related_to_id])
  /\ pc' = [pc EXCEPT ![p] = "uc_commit"]
  /\ Step(p)
  /\ UNCHANGED <<users, txUsers, req, arg, result, ncalls, nfaults, env, loc>>

(* transaction.commit(); return coinTransaction *)
UseCoinsCommit(p) ==
  /\ pc[p] = "uc_commit"
  /\ CommitTx(Inner(p))
  /\ MutatorReturns(p)
  /\ Step(p)
  /\ UNCHANGED <<seq, req, arg, ncalls, nfaults, env, loc>>

(* ------------------------------ addExp --------------------------------- *)
(* GamificationService.addExp(user_id, amount, relatedObject)              *)
AddExpCall(p) ==
  \E u \in Users \cup {NoUser}, a \in 0..MaxAmount :
    Begin(p, [op |-> "addExp", user_id |-> u, target |-> 0],
          [user_id |-> u, amount |-> a, related_to_type |-> "AdminGrant", related_to_id |-> 0],
          "ae_enter")

(* amount <= 0 is refused; the transaction opens; User.findByPk *)
AddExpEnter(p) ==
  /\ pc[p] = "ae_enter"
  /\ IF arg[p].amount <= 0 THEN Throw(p, "AmountInvalid")
     ELSE IF arg[p].user_id \notin Users THEN Throw(p, "UserNotFound")
     ELSE /\ pc' = [pc EXCEPT ![p] = "ae_increment"]
          /\ Step(p)
          /\ UNCHANGED <<users, txUsers, tables, seq, req, arg, result, ncalls, env, loc>>
  /\ UNCHANGED nfaults

(* user.increment('totalExp', { by: amount, transaction }) *)
AddExpIncrement(p) ==
  /\ pc[p] = "ae_increment"
  /\ IncrementUser(Inner(p), arg[p].user_id, "totalExp", arg[p].amount)
  /\ pc' = [pc EXCEPT ![p] = "ae_create"]
  /\ Step(p)
  /\ UNCHANGED <<users, tables, seq, req, arg, result, ncalls, nfaults, env, loc>>

(* ExpTransaction.create({ user_id, amount, related_to_* }, { transaction }) *)
AddExpCreate(p) ==
  /\ pc[p] = "ae_create"
  /\ InsertRow("expTx", Inner(p),
               [user_id |-> arg[p].user_id, amount |-> arg[p].amount,
                related_to_type |-> arg[p].related_to_type,
                related_to_id |-> arg[p].related_to_id])
  /\ pc' = [pc EXCEPT ![p] = "ae_commit"]
  /\ Step(p)
  /\ UNCHANGED <<users, txUsers, req, arg, result, ncalls, nfaults, env, loc>>

(* transaction.commit(); return expTransaction *)
AddExpCommit(p) ==
  /\ pc[p] = "ae_commit"
  /\ CommitTx(Inner(p))
  /\ MutatorReturns(p)
  /\ Step(p)
  /\ UNCHANGED <<seq, req, arg, ncalls, nfaults, env, loc>>

(* ------------------------------ createCheckin -------------------------- *)
(* GamificationService.createCheckin(user_id, payload)                     *)
coinsEarned == 10
expEarned == 5

(* The calendar month of an instant, and the window createCheckin builds   *)
(* from now: new Date(y, m, 1) and new Date(y, m + 1, 0, 23, 59, 59).      *)
MonthOf(t) == t \div MonthTicks
startOfMonth(now) == MonthOf(now) * MonthTicks
endOfMonth(now) == (MonthOf(now) + 1) * MonthTicks - SecondTicks

(* Checkin.findOne({ where: { user_id, place_id, created_at: { gte, lte } } }) *)
hasCheckedInThisMonth(rows, u, pl, now) ==
  \E r \in rows :
    /\ r.user_id = u
    /\ r.place_id = pl
    /\ r.created_at >= startOfMonth(now)
    /\ r.created_at <= endOfMonth(now)

CreateCheckinCall(p) ==
  \E u \in Users \cup {NoUser}, pl \in Places \cup {NoPlace} :
    Begin(p, [op |-> "createCheckin", user_id |-> u, target |-> pl], NoArg, "ci_place")

(* The transaction opens; Place.findByPk; the place must be active.        *)
CreateCheckinPlace(p) ==
  /\ pc[p] = "ci_place"
  /\ IF req[p].target \notin Places THEN Throw(p, "PlaceNotFound")
     ELSE IF ~PlaceRow(req[p].target).status THEN Throw(p, "PlaceInactive")
     ELSE /\ pc' = [pc EXCEPT ![p] = "ci_check"]
          /\ Step(p)
          /\ UNCHANGED <<users, txUsers, tables, seq, req, arg, result, ncalls, env, loc>>
  /\ UNCHANGED nfaults

(* now = new Date(); the monthly check.                                    *)
CreateCheckinCheck(p) ==
  /\ pc[p] = "ci_check"
  /\ IF hasCheckedInThisMonth(Visible(tables.checkins, Outer(p)),
                              req[p].user_id, req[p].target, clock)
     THEN Throw(p, "AlreadyCheckedIn")
     ELSE /\ pc' = [pc EXCEPT ![p] = "ci_user"]
          /\ Step(p)
          /\ UNCHANGED <<users, txUsers, tables, seq, req, arg, result, ncalls, env, loc>>
  /\ UNCHANGED nfaults

(* User.findByPk(user_id, { transaction }): the handler keeps the row.     *)
CreateCheckinUser(p) ==
  /\ pc[p] = "ci_user"
  /\ IF req[p].user_id \notin Users THEN Throw(p, "UserNotFound")
     ELSE /\ LET row == UserRow(req[p].user_id, Outer(p)) IN
             loc' = [loc EXCEPT ![p] = [@ EXCEPT !.totalCoin = row.totalCoin,
                                                 !.totalExp = row.totalExp,
                                                 !.totalCheckin = row.totalCheckin]]
          /\ pc' = [pc EXCEPT ![p] = "ci_create"]
          /\ Step(p)
          /\ UNCHANGED <<users, txUsers, tables, seq, req, arg, result, ncalls, env>>
  /\ UNCHANGED nfaults

(* Checkin.create({ user_id, place_id, ... }, { transaction })             *)
CreateCheckinCreate(p) ==
  /\ pc[p] = "ci_create"
  /\ InsertRow("checkins", Outer(p),
               [user_id |-> req[p].user_id, place_id |-> req[p].target, created_at |-> clock])
  /\ loc' = [loc EXCEPT ![p].checkin_id = seq.checkins]
  /\ pc' = [pc EXCEPT ![p] = "ci_update"]
  /\ Step(p)
  /\ UNCHANGED <<users, txUsers, req, arg, result, ncalls, nfaults, env>>

CreateCheckinUpdateBalancesOnly(p) ==
  /\ pc[p] = "ci_update"
  /\ RowFree(req[p].user_id, Outer(p))
  /\ txUsers' = [txUsers EXCEPT ![Outer(p)][req[p].user_id] =
                   <<[UserRow(req[p].user_id, Outer(p)) EXCEPT
                        !.totalCoin = loc[p].totalCoin + coinsEarned,
                        !.totalExp = loc[p].totalExp + expEarned]>>]
  /\ pc' = [pc EXCEPT ![p] = "ci_coin"]
  /\ Step(p)
  /\ UNCHANGED <<users, tables, seq, req, arg, result, ncalls, nfaults, env, loc>>

(* user.update({ totalCoin, totalExp, totalCheckin }, { transaction }):    *)
(* the three columns are set to values computed from the row read before.  *)
CreateCheckinUpdate(p) ==
  /\ pc[p] = "ci_update"
  /\ RowFree(req[p].user_id, Outer(p))
  /\ txUsers' = [txUsers EXCEPT ![Outer(p)][req[p].user_id] =
                   <<[UserRow(req[p].user_id, Outer(p)) EXCEPT
                        !.totalCoin = loc[p].totalCoin + coinsEarned,
                        !.totalExp = loc[p].totalExp + expEarned,
                        !.totalCheckin = loc[p].totalCheckin + 1]>>]
  /\ pc' = [pc EXCEPT ![p] = "ci_coin"]
  /\ Step(p)
  /\ UNCHANGED <<users, tables, seq, req, arg, result, ncalls, nfaults, env, loc>>

(* CoinTransaction.create({ amount: coinsEarned, related_to: Checkin }, { transaction }) *)
CreateCheckinCoin(p) ==
  /\ pc[p] = "ci_coin"
  /\ InsertRow("coinTx", Outer(p),
               [user_id |-> req[p].user_id, amount |-> coinsEarned,
                related_to_type |-> "Checkin", related_to_id |-> loc[p].checkin_id])
  /\ pc' = [pc EXCEPT ![p] = "ci_exp"]
  /\ Step(p)
  /\ UNCHANGED <<users, txUsers, req, arg, result, ncalls, nfaults, env, loc>>

(* ExpTransaction.create({ amount: expEarned, related_to: Checkin }, { transaction }) *)
CreateCheckinExp(p) ==
  /\ pc[p] = "ci_exp"
  /\ InsertRow("expTx", Outer(p),
               [user_id |-> req[p].user_id, amount |-> expEarned,
                related_to_type |-> "Checkin", related_to_id |-> loc[p].checkin_id])
  /\ pc' = [pc EXCEPT ![p] = "ci_commit"]
  /\ Step(p)
  /\ UNCHANGED <<users, txUsers, req, arg, result, ncalls, nfaults, env, loc>>

(* transaction.commit()                                                    *)
CreateCheckinCommit(p) ==
  /\ pc[p] = "ci_commit"
  /\ CommitTx(Outer(p))
  /\ pc' = [pc EXCEPT ![p] = "ci_load"]
  /\ Step(p)
  /\ UNCHANGED <<seq, req, arg, result, ncalls, nfaults, env, loc>>

(* Checkin.findByPk(checkin.id, { include: place }); return                *)
CreateCheckinLoad(p) ==
  /\ pc[p] = "ci_load"
  /\ pc' = [pc EXCEPT ![p] = "done"]
  /\ result' = [result EXCEPT ![p] = "ok"]
  /\ Step(p)
  /\ UNCHANGED <<users, txUsers, tables, seq, req, arg, ncalls, nfaults, env, loc>>

(* Time passes.                                                            *)
Tick ==
  /\ clock < MaxClock
  /\ clock' = clock + 1
  /\ UNCHANGED <<users, txUsers, tables, seq, rewards, pc, req, arg, loc, result, frame,
                 ncalls, nfaults>>

(* ------------------------------ grantAchievement ----------------------- *)
(* GamificationService.grantAchievement(user_id, achievement_id)           *)

(* The unique index on (user_id, key) of a grant table: an INSERT of a key *)
(* that a committed row holds is refused; it waits while a row of another  *)
(* transaction in progress holds the key.                                  *)
KeyTaken(tbl, key, u, k) ==
  \E r \in CommittedRows(tables[tbl]) : r.user_id = u /\ r[key] = k
KeyPending(tbl, key, t, u, k) ==
  \E r \in tables[tbl] : r.xid \notin {Committed, t} /\ r.user_id = u /\ r[key] = k

GrantAchievementCall(p) ==
  \E u \in Users \cup {NoUser}, a \in Achievements \cup {0} :
    Begin(p, [op |-> "grantAchievement", user_id |-> u, target |-> a], NoArg, "ga_find")

(* The transaction opens; User.findByPk; Achievement.findByPk.             *)
GrantAchievementFind(p) ==
  /\ pc[p] = "ga_find"
  /\ IF req[p].user_id \notin Users \/ req[p].target \notin Achievements
     THEN Throw(p, "NotFound")
     ELSE /\ pc' = [pc EXCEPT ![p] = "ga_check"]
          /\ Step(p)
          /\ UNCHANGED <<users, txUsers, tables, seq, req, arg, result, ncalls, env, loc>>
  /\ UNCHANGED nfaults

hasAchievementInactive(rows, u, a) ==
  \E r \in rows : r.user_id = u /\ r.achievement_id = a /\ ~r.status

(* UserAchievement.findOne({ where: { user_id, achievement_id, status: true } }) *)
hasAchievement(rows, u, a) ==
  \E r \in rows : r.user_id = u /\ r.achievement_id = a /\ r.status

GrantAchievementCheck(p) ==
  /\ pc[p] = "ga_check"
  /\ IF hasAchievement(Visible(tables.userAchievements, Outer(p)), req[p].user_id, req[p].target)
     THEN Throw(p, "AlreadyGranted")
     ELSE /\ pc' = [pc EXCEPT ![p] = "ga_create"]
          /\ Step(p)
          /\ UNCHANGED <<users, txUsers, tables, seq, req, arg, result, ncalls, env, loc>>
  /\ UNCHANGED nfaults

(* UserAchievement.create({ user_id, achievement_id, status: true }, { transaction }) *)
GrantAchievementCreate(p) ==
  /\ pc[p] = "ga_create"
  /\ ~KeyPending("userAchievements", "achievement_id", Outer(p), req[p].user_id, req[p].target)
  /\ IF KeyTaken("userAchievements", "achievement_id", req[p].user_id, req[p].target)
     THEN Throw(p, "UniqueViolation")
     ELSE /\ InsertRow("userAchievements", Outer(p),
                       [user_id |-> req[p].user_id, achievement_id |-> req[p].target,
                        status |-> TRUE])
          /\ pc' = [pc EXCEPT ![p] = "ga_increment"]
          /\ Step(p)
          /\ UNCHANGED <<users, txUsers, req, arg, result, ncalls, env, loc>>
  /\ UNCHANGED nfaults

(* user.increment('totalAchievement'): no transaction is passed, so the    *)
(* UPDATE is committed at once.  Then addCoins is called with the reward.  *)
GrantAchievementIncrement(p) ==
  /\ pc[p] = "ga_increment"
  /\ RowFree(req[p].user_id, Committed)
  /\ users' = [users EXCEPT ![req[p].user_id].totalAchievement = @ + 1]
  /\ arg' = [arg EXCEPT ![p] =
               [user_id |-> req[p].user_id,
                amount |-> AchievementRow(req[p].target).coin_reward,
                related_to_type |-> "Achievement", related_to_id |-> req[p].target]]
  /\ pc' = [pc EXCEPT ![p] = "ac_enter"]
  /\ Step(p)
  /\ UNCHANGED <<txUsers, tables, seq, req, result, ncalls, nfaults, env, loc>>

(* transaction.commit(); return userAchievement                            *)
GrantAchievementCommit(p) ==
  /\ pc[p] = "ga_commit"
  /\ CommitTx(Outer(p))
  /\ pc' = [pc EXCEPT ![p] = "done"]
  /\ result' = [result EXCEPT ![p] = "ok"]
  /\ Step(p)
  /\ UNCHANGED <<seq, req, arg, ncalls, nfaults, env, loc>>

(* ------------------------------ completeChallenge ---------------------- *)
(* GamificationService.completeChallenge(user_id, challenge_id)            *)
CompleteChallengeCall(p) ==
  \E u \in Users \cup {NoUser}, c \in Challenges \cup {0} :
    Begin(p, [op |-> "completeChallenge", user_id |-> u, target |-> c], NoArg, "ch_find")

(* The transaction opens; User.findByPk; Challenge.findByPk.               *)
CompleteChallengeFind(p) ==
  /\ pc[p] = "ch_find"
  /\ IF req[p].user_id \notin Users \/ req[p].target \notin Challenges
     THEN Throw(p, "NotFound")
     ELSE /\ pc' = [pc EXCEPT ![p] = "ch_check"]
          /\ Step(p)
          /\ UNCHANGED <<users, txUsers, tables, seq, req, arg, result, ncalls, env, loc>>
  /\ UNCHANGED nfaults

(* UserChallenge.findOne({ where: { user_id, challenge_id, status: true } }) *)
hasCompleted(rows, u, c) ==
  \E r \in rows : r.user_id = u /\ r.challenge_id = c /\ r.status

CompleteChallengeCheck(p) ==
  /\ pc[p] = "ch_check"
  /\ IF hasCompleted(Visible(tables.userChallenges, Outer(p)), req[p].user_id, req[p].target)
     THEN Throw(p, "AlreadyGranted")
     ELSE /\ pc' = [pc EXCEPT ![p] = "ch_create"]
          /\ Step(p)
          /\ UNCHANGED <<users, txUsers, tables, seq, req, arg, result, ncalls, env, loc>>
  /\ UNCHANGED nfaults

(* UserChallenge.create({ user_id, challenge_id, status: true }, { transaction }) *)
CompleteChallengeCreate(p) ==
  /\ pc[p] = "ch_create"
  /\ ~KeyPending("userChallenges", "challenge_id", Outer(p), req[p].user_id, req[p].target)
  /\ IF KeyTaken("userChallenges", "challenge_id", req[p].user_id, req[p].target)
     THEN Throw(p, "UniqueViolation")
     ELSE /\ InsertRow("userChallenges", Outer(p),
                       [user_id |-> req[p].user_id, challenge_id |-> req[p].target,
                        status |-> TRUE])
          /\ pc' = [pc EXCEPT ![p] = "ch_increment"]
          /\ Step(p)
          /\ UNCHANGED <<users, txUsers, req, arg, result, ncalls, env, loc>>
  /\ UNCHANGED nfaults

(* user.increment('totalChallenge'): no transaction is passed, so the      *)
(* UPDATE is committed at once.  Then addExp is called with the reward.    *)
CompleteChallengeIncrement(p) ==
  /\ pc[p] = "ch_increment"
  /\ RowFree(req[p].user_id, Committed)
  /\ users' = [users EXCEPT ![req[p].user_id].totalChallenge = @ + 1]
  /\ arg' = [arg EXCEPT ![p] =
               [user_id |-> req[p].user_id,
                amount |-> ChallengeRow(req[p].target).exp_reward,
                related_to_type |-> "Challenge", related_to_id |-> req[p].target]]
  /\ pc' = [pc EXCEPT ![p] = "ae_enter"]
  /\ Step(p)
  /\ UNCHANGED <<txUsers, tables, seq, req, result, ncalls, nfaults, env, loc>>

(* transaction.commit(); return userChallenge                              *)
CompleteChallengeCommit(p) ==
  /\ pc[p] = "ch_commit"
  /\ CommitTx(Outer(p))
  /\ pc' = [pc EXCEPT ![p] = "done"]
  /\ result' = [result EXCEPT ![p] = "ok"]
  /\ Step(p)
  /\ UNCHANGED <<seq, req, arg, ncalls, nfaults, env, loc>>

(* ------------------------------ redeemReward --------------------------- *)
(* GamificationService.redeemReward(user_id, reward_id)                    *)

(* reward.stock <= 0 as JavaScript evaluates it: null compares as 0.       *)
StockLeqZero(stock) == IF stock = <<>> THEN TRUE ELSE stock[1] <= 0

ValidateNoStatus(user, reward) ==
  IF user.totalCoin < reward.coin_requirement THEN "InsufficientCoins"
  ELSE IF StockLeqZero(reward.stock) THEN "OutOfStock"
  ELSE "ok"

(* The three tests of redeemReward, in the order of the code; "ok" when    *)
(* all pass.                                                               *)
Validate(user, reward) ==
  IF user.totalCoin < reward.coin_requirement THEN "InsufficientCoins"
  ELSE IF StockLeqZero(reward.stock) THEN "OutOfStock"
  ELSE IF ~reward.status THEN "RewardInactive"
  ELSE "ok"

RedeemRewardCall(p) ==
  \E u \in Users \cup {NoUser}, r \in Rewards \cup {0} :
    Begin(p, [op |-> "redeemReward", user_id |-> u, target |-> r], NoArg, "rr_find")

(* The transaction opens; User.findByPk; Reward.findByPk; the validation;  *)
(* useCoins is called with the reward's coin_requirement.                  *)
RedeemRewardFind(p) ==
  /\ pc[p] = "rr_find"
  /\ IF req[p].user_id \notin Users \/ req[p].target \notin Rewards
     THEN Throw(p, "NotFound")
     ELSE LET v == Validate(UserRow(req[p].user_id, Outer(p)), rewards[req[p].target]) IN
          IF v # "ok" THEN Throw(p, v)
          ELSE /\ arg' = [arg EXCEPT ![p] =
                            [user_id |-> req[p].user_id,
                             amount |-> rewards[req[p].target].coin_requirement,
                             related_to_type |-> "Reward", related_to_id |-> req[p].target]]
               /\ pc' = [pc EXCEPT ![p] = "uc_find"]
               /\ Step(p)
               /\ UNCHANGED <<users, txUsers, tables, seq, req, result, ncalls, env, loc>>
  /\ UNCHANGED nfaults

(* reward.decrement('stock'): no transaction is passed, so                 *)
(* UPDATE rewards SET stock = stock - 1 is committed at once; NULL - 1 is  *)
(* NULL.                                                                   *)
RedeemRewardDecrement(p) ==
  /\ pc[p] = "rr_decrement"
  /\ rewards' = [rewards EXCEPT ![req[p].target].stock =
                   IF @ = <<>> THEN <<>> ELSE <<@[1] - 1>>]
  /\ pc' = [pc EXCEPT ![p] = "rr_create"]
  /\ Step(p)
  /\ UNCHANGED <<users, txUsers, tables, seq, clock, req, arg, result, ncalls, nfaults, loc>>

(* UserReward.create({ user_id, reward_id, status: true, ... }, { transaction }) *)
RedeemRewardCreate(p) ==
  /\ pc[p] = "rr_create"
  /\ InsertRow("userRewards", Outer(p),
               [user_id |-> req[p].user_id, reward_id |-> req[p].target, status |-> TRUE])
  /\ pc' = [pc EXCEPT ![p] = "rr_commit"]
  /\ Step(p)
  /\ UNCHANGED <<users, txUsers, req, arg, result, ncalls, nfaults, env, loc>>

(* transaction.commit(); return userReward                                 *)
RedeemRewardCommit(p) ==
  /\ pc[p] = "rr_commit"
  /\ CommitTx(Outer(p))
  /\ pc' = [pc EXCEPT ![p] = "done"]
  /\ result' = [result EXCEPT ![p] = "ok"]
  /\ Step(p)
  /\ UNCHANGED <<seq, req, arg, ncalls, nfaults, env, loc>>

(* ------------------------------ createReview --------------------------- *)
(* GamificationService.createReview(user_id, place_id, data)               *)

(* The ratings callers send: one the model admits and one above its        *)
(* maximum of 5.                                                           *)
Ratings == {3, 6}
RatingValid(rating) == rating >= 1 /\ rating <= 5

RECURSIVE SumRatings(_)
SumRatings(rows) ==
  IF rows = {} THEN 0
  ELSE LET r == CHOOSE x \in rows : TRUE
       IN r.rating + SumRatings(rows \ {r})

(* Math.round((total / count) * 100) / 100, in hundredths; 0 for no rows.  *)
RoundedAverage(total, count) ==
  IF count = 0 THEN 0 ELSE (200 * total + count) \div (2 * count)

CreateReviewCall(p) ==
  \E u \in Users, pl \in Places \cup {NoPlace}, rt \in Ratings :
    Begin(p, [op |-> "createReview", user_id |-> u, target |-> pl, rating |-> rt],
          NoArg, "cr_place")

(* The transaction opens; place = Place.findByPk; the place must be        *)
(* active.  The handler keeps the row, of which it reads place.coin_reward *)
(* and place.exp_reward later.                                             *)
CreateReviewPlace(p) ==
  /\ pc[p] = "cr_place"
  /\ IF req[p].target \notin Places THEN Throw(p, "PlaceNotFound")
     ELSE IF ~PlaceRow(req[p].target).status THEN Throw(p, "PlaceInactive")
     ELSE /\ loc' = [loc EXCEPT
                       ![p].coin_reward = Property(PlaceRow(req[p].target), "coin_reward"),
                       ![p].exp_reward = Property(PlaceRow(req[p].target), "exp_reward")]
          /\ pc' = [pc EXCEPT ![p] = "cr_check"]
          /\ Step(p)
          /\ UNCHANGED <<users, txUsers, tables, seq, req, arg, result, ncalls, env>>
  /\ UNCHANGED nfaults

(* Review.findOne({ where: { user_id, place_id, created_at: { gte, lte } } }): *)
(* the same window as createCheckin, over reviews of any status.           *)
CreateReviewCheck(p) ==
  /\ pc[p] = "cr_check"
  /\ IF hasCheckedInThisMonth(Visible(tables.reviews, Outer(p)),
                              req[p].user_id, req[p].target, clock)
     THEN Throw(p, "AlreadyReviewed")
     ELSE /\ pc' = [pc EXCEPT ![p] = "cr_create"]
          /\ Step(p)
          /\ UNCHANGED <<users, txUsers, tables, seq, req, arg, result, ncalls, env, loc>>
  /\ UNCHANGED nfaults

(* Review.create({ user_id, place_id, rating, status: true }, { transaction }); *)
(* the model's validation refuses a rating outside 1..5.                   *)
CreateReviewCreate(p) ==
  /\ pc[p] = "cr_create"
  /\ IF ~RatingValid(req[p].rating) THEN Throw(p, "ValidationError")
     ELSE /\ InsertRow("reviews", Outer(p),
                       [user_id |-> req[p].user_id, place_id |-> req[p].target,
                        rating |-> req[p].rating, status |-> TRUE, created_at |-> clock])
          /\ loc' = [loc EXCEPT ![p].review_id = seq.reviews]
          /\ pc' = [pc EXCEPT ![p] = "cr_user"]
          /\ Step(p)
          /\ UNCHANGED <<users, txUsers, req, arg, result, ncalls, env>>
  /\ UNCHANGED nfaults

(* User.increment('totalReview', { by: 1, where: { id: user_id }, transaction }) *)
CreateReviewUser(p) ==
  /\ pc[p] = "cr_user"
  /\ IncrementUser(Outer(p), req[p].user_id, "totalReview", 1)
  /\ pc' = [pc EXCEPT ![p] = "cr_placeinc"]
  /\ Step(p)
  /\ UNCHANGED <<users, tables, seq, req, arg, result, ncalls, nfaults, env, loc>>

(* Place.increment('totalReview', { by: 1, where: { id: place_id }, transaction }) *)
CreateReviewPlaceIncrement(p) ==
  /\ pc[p] = "cr_placeinc"
  /\ UpdateRow("places", Outer(p), req[p].target,
               [CurrentRow("places", req[p].target, Outer(p)) EXCEPT !.totalReview = @ + 1])
  /\ pc' = [pc EXCEPT ![p] = "cr_stats"]
  /\ Step(p)
  /\ UNCHANGED <<users, txUsers, seq, req, arg, result, ncalls, nfaults, env, loc>>

(* Review.findOne({ attributes: [COUNT(id), SUM(rating)], where: { place_id }, *)
(* transaction }): over the reviews of the place of any status.            *)
CreateReviewStats(p) ==
  /\ pc[p] = "cr_stats"
  /\ LET rows == {r \in Visible(tables.reviews, Outer(p)) : r.place_id = req[p].target}
     IN loc' = [loc EXCEPT ![p].avgRating = RoundedAverage(SumRatings(rows), Cardinality(rows))]
  /\ pc' = [pc EXCEPT ![p] = "cr_update"]
  /\ Step(p)
  /\ UNCHANGED <<users, txUsers, tables, seq, req, arg, result, ncalls, nfaults, env>>

(* The amount a balance mutator works with when it is passed v: for       *)
(* undefined the test amount <= 0 is false and increment's by defaults to *)
(* 1, as for the amount 1.                                                 *)
AmountPassed(v) == IF v = <<>> THEN 1 ELSE v[1]

(* place.update({ avgRating }, { transaction }); then                      *)
(* this.addCoins(user_id, place.coin_reward, { type: 'Review', id }) is    *)
(* called.                                                                 *)
CreateReviewUpdate(p) ==
  /\ pc[p] = "cr_update"
  /\ UpdateRow("places", Outer(p), req[p].target,
               [CurrentRow("places", req[p].target, Outer(p)) EXCEPT
                  !.avgRating = loc[p].avgRating])
  /\ arg' = [arg EXCEPT ![p] = [user_id |-> req[p].user_id,
                                amount |-> AmountPassed(loc[p].coin_reward),
                                related_to_type |-> "Review",
                                related_to_id |-> loc[p].review_id]]
  /\ pc' = [pc EXCEPT ![p] = "ac_enter"]
  /\ Step(p)
  /\ UNCHANGED <<users, txUsers, seq, req, result, ncalls, nfaults, env, loc>>

(* this.addExp(user_id, place.exp_reward, { type: 'Review', id }) is       *)
(* called when addCoins has returned.                                      *)
CreateReviewExp(p) ==
  /\ pc[p] = "cr_exp"
  /\ arg' = [arg EXCEPT ![p] = [user_id |-> req[p].user_id,
                                amount |-> AmountPassed(loc[p].exp_reward),
                                related_to_type |-> "Review",
                                related_to_id |-> loc[p].review_id]]
  /\ pc' = [pc EXCEPT ![p] = "ae_enter"]
  /\ Step(p)
  /\ UNCHANGED <<users, txUsers, tables, seq, req, result, ncalls, nfaults, env, loc>>

(* transaction.commit(); return review                                     *)
CreateReviewCommit(p) ==
  /\ pc[p] = "cr_commit"
  /\ CommitTx(Outer(p))
  /\ pc' = [pc EXCEPT ![p] = "done"]
  /\ result' = [result EXCEPT ![p] = "ok"]
  /\ Step(p)
  /\ UNCHANGED <<seq, req, arg, ncalls, nfaults, env, loc>>

(* ------------------------------ ReviewService -------------------------- *)
(* ReviewService.createReview(reviewData), deleteReview(reviewId, userId)  *)
(* and updatePlaceStatistics(placeId): no statement of theirs carries a    *)
(* transaction.                                                            *)
RsCreateReviewCall(p) ==
  \E u \in Users \cup {NoUser}, pl \in Places, rt \in Ratings :
    Begin(p, [op |-> "ReviewService.createReview", user_id |-> u, target |-> pl,
              rating |-> rt], NoArg, "rs_find")

(* The required fields and the rating range are tested; User.findByPk;     *)
(* Place.findByPk.  The status of the place is not looked at.              *)
RsCreateReviewFind(p) ==
  /\ pc[p] = "rs_find"
  /\ IF req[p].user_id = 0 \/ req[p].target = 0 \/ req[p].rating = 0
     THEN Throw(p, "Required")
     ELSE IF req[p].rating < 1 \/ req[p].rating > 5 THEN Throw(p, "RatingInvalid")
     ELSE IF req[p].user_id \notin Users THEN Throw(p, "UserNotFound")
     ELSE IF req[p].target \notin Places THEN Throw(p, "PlaceNotFound")
     ELSE /\ pc' = [pc EXCEPT ![p] = "rs_check"]
          /\ Step(p)
          /\ UNCHANGED <<users, txUsers, tables, seq, req, arg, result, ncalls, env, loc>>
  /\ UNCHANGED nfaults

(* Review.findOne({ where: { user_id, place_id, status: true } })          *)
existingReview(rows, u, pl) ==
  \E r \in rows : r.user_id = u /\ r.place_id = pl /\ r.status

RsCreateReviewCheck(p) ==
  /\ pc[p] = "rs_check"
  /\ IF existingReview(CommittedRows(tables.reviews), req[p].user_id, req[p].target)
     THEN Throw(p, "AlreadyReviewed")
     ELSE /\ pc' = [pc EXCEPT ![p] = "rs_create"]
          /\ Step(p)
          /\ UNCHANGED <<users, txUsers, tables, seq, req, arg, result, ncalls, env, loc>>
  /\ UNCHANGED nfaults

(* Review.create({ user_id, place_id, rating, status: true }); then        *)
(* updatePlaceStatistics(place_id) is called.                              *)
RsCreateReviewCreate(p) ==
  /\ pc[p] = "rs_create"
  /\ InsertRow("reviews", Committed,
               [user_id |-> req[p].user_id, place_id |-> req[p].target,
                rating |-> req[p].rating, status |-> TRUE, created_at |-> clock])
  /\ loc' = [loc EXCEPT ![p].review_id = seq.reviews, ![p].place_id = req[p].target]
  /\ pc' = [pc EXCEPT ![p] = "ps_query"]
  /\ Step(p)
  /\ UNCHANGED <<users, txUsers, req, arg, result, ncalls, nfaults, env>>

(* Review.findByPk(review.id, { include: user, place }); return            *)
RsCreateReviewLoad(p) ==
  /\ pc[p] = "rs_load"
  /\ pc' = [pc EXCEPT ![p] = "done"]
  /\ result' = [result EXCEPT ![p] = "ok"]
  /\ Step(p)
  /\ UNCHANGED <<users, txUsers, tables, seq, req, arg, ncalls, nfaults, env, loc>>

DeleteReviewCall(p) ==
  \E u \in Users, id \in {r.id : r \in CommittedRows(tables.reviews)} \cup {0} :
    Begin(p, [op |-> "deleteReview", user_id |-> u, target |-> id], NoArg, "rd_find")

(* Review.findByPk(reviewId); the review must be the caller's.             *)
DeleteReviewFind(p) ==
  /\ pc[p] = "rd_find"
  /\ IF ~\E r \in CommittedRows(tables.reviews) : r.id = req[p].target
     THEN Throw(p, "ReviewNotFound")
     ELSE IF CurrentRow("reviews", req[p].target, Committed).user_id # req[p].user_id
     THEN Throw(p, "Unauthorized")
     ELSE /\ loc' = [loc EXCEPT
                       ![p].review_id = req[p].target,
                       ![p].place_id = CurrentRow("reviews", req[p].target, Committed).place_id]
          /\ pc' = [pc EXCEPT ![p] = "rd_update"]
          /\ Step(p)
          /\ UNCHANGED <<users, txUsers, tables, seq, req, arg, result, ncalls, env>>
  /\ UNCHANGED nfaults

(* review.update({ status: false }); then updatePlaceStatistics is called. *)
DeleteReviewUpdate(p) ==
  /\ pc[p] = "rd_update"
  /\ UpdateRow("reviews", Committed, req[p].target,
               [CurrentRow("reviews", req[p].target, Committed) EXCEPT !.status = FALSE])
  /\ pc' = [pc EXCEPT ![p] = "ps_query"]
  /\ Step(p)
  /\ UNCHANGED <<users, txUsers, seq, req, arg, result, ncalls, nfaults, env, loc>>

(* ReviewService.updateReview(reviewId, updateData, userId), updateData    *)
(* holding a rating (a number).                                            *)
UpdateReviewCall(p) ==
  \E u \in Users, id \in {r.id : r \in CommittedRows(tables.reviews)} \cup {0},
     rt \in Ratings :
    Begin(p, [op |-> "updateReview", user_id |-> u, target |-> id, rating |-> rt],
          NoArg, "ru_find")

(* review = Review.findByPk(reviewId); the review must be the caller's;    *)
(* the rating must lie in 1..5.  The handler keeps the instance.           *)
UpdateReviewFind(p) ==
  /\ pc[p] = "ru_find"
  /\ IF ~\E r \in CommittedRows(tables.reviews) : r.id = req[p].target
     THEN Throw(p, "ReviewNotFound")
     ELSE IF CurrentRow("reviews", req[p].target, Committed).user_id # req[p].user_id
     THEN Throw(p, "Unauthorized")
     ELSE IF req[p].rating < 1 \/ req[p].rating > 5 THEN Throw(p, "RatingInvalid")
     ELSE /\ loc' = [loc EXCEPT
                       ![p].review_id = req[p].target,
                       ![p].place_id = CurrentRow("reviews", req[p].target, Committed).place_id,
                       ![p].rating = CurrentRow("reviews", req[p].target, Committed).rating]
          /\ pc' = [pc EXCEPT ![p] = "ru_update"]
          /\ Step(p)
          /\ UNCHANGED <<users, txUsers, tables, seq, req, arg, result, ncalls, env>>
  /\ UNCHANGED nfaults

(* review.update({ rating }): the row is written and the instance takes    *)
(* the new rating; then, if (rating !== review.rating), the instance being *)
(* the updated one, updatePlaceStatistics(review.place_id) is called.      *)
UpdateReviewUpdate(p) ==
  /\ pc[p] = "ru_update"
  /\ UpdateRow("reviews", Committed, req[p].target,
               [CurrentRow("reviews", req[p].target, Committed) EXCEPT
                  !.rating = req[p].rating])
  /\ loc' = [loc EXCEPT ![p].rating = req[p].rating]
  /\ pc' = [pc EXCEPT ![p] = IF req[p].rating # loc'[p].rating THEN "ps_query" ELSE "ru_load"]
  /\ Step(p)
  /\ UNCHANGED <<users, txUsers, seq, req, arg, result, ncalls, nfaults, env>>

(* Review.findByPk(updatedReview.id, { include: user, place }); return     *)
UpdateReviewLoad(p) ==
  /\ pc[p] = "ru_load"
  /\ pc' = [pc EXCEPT ![p] = "done"]
  /\ result' = [result EXCEPT ![p] = "ok"]
  /\ Step(p)
  /\ UNCHANGED <<users, txUsers, tables, seq, req, arg, ncalls, nfaults, env, loc>>

ActiveReviewsAnyStatus(rows, pl) == {r \in rows : r.place_id = pl}

(* where: { place_id: placeId, status: true }                              *)
ActiveReviews(rows, pl) == {r \in rows : r.place_id = pl /\ r.status}

(* Review.findOne({ attributes: [AVG(rating), COUNT(id)], where, raw });   *)
(* avgRating = parseFloat(stats.avgRating) || 0, rounded to two decimals.  *)
UpdatePlaceStatisticsQuery(p) ==
  /\ pc[p] = "ps_query"
  /\ LET rows == ActiveReviews(CommittedRows(tables.reviews), loc[p].place_id)
     IN loc' = [loc EXCEPT
                  ![p].avgRating = RoundedAverage(SumRatings(rows), Cardinality(rows)),
                  ![p].totalReviews = Cardinality(rows)]
  /\ pc' = [pc EXCEPT ![p] = "ps_update"]
  /\ Step(p)
  /\ UNCHANGED <<users, txUsers, tables, seq, req, arg, result, ncalls, nfaults, env>>

(* Where the caller of updatePlaceStatistics goes on.                      *)
StatisticsReturn(p) ==
  IF req[p].op = "deleteReview"
  THEN /\ pc' = [pc EXCEPT ![p] = "done"]
       /\ result' = [result EXCEPT ![p] = "ok"]
  ELSE /\ pc' = [pc EXCEPT ![p] = IF req[p].op = "updateReview" THEN "ru_load" ELSE "rs_load"]
       /\ UNCHANGED result

(* Place.update({ avgRating, totalReview }, { where: { id: placeId } })    *)
UpdatePlaceStatisticsUpdate(p) ==
  /\ pc[p] = "ps_update"
  /\ UpdateRow("places", Committed, loc[p].place_id,
               [CurrentRow("places", loc[p].place_id, Committed) EXCEPT
                  !.avgRating = loc[p].avgRating, !.totalReview = loc[p].totalReviews])
  /\ StatisticsReturn(p)
  /\ Step(p)
  /\ UNCHANGED <<users, txUsers, seq, req, arg, ncalls, nfaults, env, loc>>

(* A statement of updatePlaceStatistics is rejected: the catch block logs  *)
(* the error and returns, and the caller goes on.                          *)
StatisticsFault(p) ==
  /\ pc[p] \in {"ps_query", "ps_update"}
  /\ nfaults < MaxFaults
  /\ nfaults' = nfaults + 1
  /\ StatisticsReturn(p)
  /\ Step(p)
  /\ UNCHANGED <<users, txUsers, tables, seq, req, arg, ncalls, env, loc>>

(* ------------------------------ SocialMediaService --------------------- *)
(* SocialMediaService.followUser(follower_id, target_user_id) and          *)
(* unfollowUser(follower_id, target_user_id)                               *)

(* The unique index on (follower_id, following_id): an INSERT waits while  *)
(* a transaction in progress holds a row of the key, and is refused when a *)
(* committed row holds it.                                                 *)
FollowsOf(rows, f, g) == {r \in rows : r.follower_id = f /\ r.following_id = g}
FollowPending(t, f, g) ==
  \E r \in FollowsOf(tables.userFollows, f, g) : r.xid \notin {Committed, t}

FollowUserCall(p) ==
  \E f \in Users, g \in Users \cup {NoUser} :
    Begin(p, [op |-> "followUser", user_id |-> f, target |-> g], NoArg, "fo_find")

(* The transaction opens; follower_id === target_user_id is refused;       *)
(* targetUser = User.findByPk(target_user_id, { transaction }): the        *)
(* handler keeps the row.                                                  *)
FollowUserFind(p) ==
  /\ pc[p] = "fo_find"
  /\ IF req[p].user_id = req[p].target THEN Throw(p, "SelfFollow")
     ELSE IF req[p].target \notin Users THEN Throw(p, "UserNotFound")
     ELSE /\ loc' = [loc EXCEPT ![p].totalFollower =
                       UserRow(req[p].target, Outer(p)).totalFollower]
          /\ pc' = [pc EXCEPT ![p] = "fo_check"]
          /\ Step(p)
          /\ UNCHANGED <<users, txUsers, tables, seq, req, arg, result, ncalls, env>>
  /\ UNCHANGED nfaults

(* UserFollow.findOne({ where: { follower_id, following_id }, transaction }) *)
FollowUserCheck(p) ==
  /\ pc[p] = "fo_check"
  /\ IF FollowsOf(LiveRows("userFollows", Outer(p)), req[p].user_id, req[p].target) # {}
     THEN Throw(p, "AlreadyFollowing")
     ELSE /\ pc' = [pc EXCEPT ![p] = "fo_create"]
          /\ Step(p)
          /\ UNCHANGED <<users, txUsers, tables, seq, req, arg, result, ncalls, env, loc>>
  /\ UNCHANGED nfaults

(* UserFollow.create({ follower_id, following_id }, { transaction })       *)
FollowUserCreate(p) ==
  /\ pc[p] = "fo_create"
  /\ ~FollowPending(Outer(p), req[p].user_id, req[p].target)
  /\ IF FollowsOf(LiveRows("userFollows", Outer(p)), req[p].user_id, req[p].target) # {}
     THEN Throw(p, "UniqueViolation")
     ELSE /\ InsertRow("userFollows", Outer(p),
                       [follower_id |-> req[p].user_id, following_id |-> req[p].target,
                        deleted |-> FALSE])
          /\ pc' = [pc EXCEPT ![p] = "fo_follower"]
          /\ Step(p)
          /\ UNCHANGED <<users, txUsers, req, arg, result, ncalls, env, loc>>
  /\ UNCHANGED nfaults

(* follower = User.findByPk(follower_id, { transaction })                  *)
FollowUserFollower(p) ==
  /\ pc[p] = "fo_follower"
  /\ loc' = [loc EXCEPT ![p].totalFollowing =
               UserRow(req[p].user_id, Outer(p)).totalFollowing]
  /\ pc' = [pc EXCEPT ![p] = "fo_following"]
  /\ Step(p)
  /\ UNCHANGED <<users, txUsers, tables, seq, req, arg, result, ncalls, nfaults, env>>

(* instance.update({ field: value }, { transaction: t }):                  *)
(* UPDATE users SET field = value WHERE id = u.                            *)
SetUser(t, u, field, value) ==
  /\ RowFree(u, t)
  /\ txUsers' = [txUsers EXCEPT ![t][u] = <<[UserRow(u, t) EXCEPT ![field] = value]>>]

(* follower.update({ totalFollowing: follower.totalFollowing + 1 }, { transaction }) *)
FollowUserFollowing(p) ==
  /\ pc[p] = "fo_following"
  /\ SetUser(Outer(p), req[p].user_id, "totalFollowing", loc[p].totalFollowing + 1)
  /\ pc' = [pc EXCEPT ![p] = "fo_target"]
  /\ Step(p)
  /\ UNCHANGED <<users, tables, seq, req, arg, result, ncalls, nfaults, env, loc>>

(* targetUser.update({ totalFollower: targetUser.totalFollower + 1 }, { transaction }) *)
FollowUserTarget(p) ==
  /\ pc[p] = "fo_target"
  /\ SetUser(Outer(p), req[p].target, "totalFollower", loc[p].totalFollower + 1)
  /\ pc' = [pc EXCEPT ![p] = "fo_commit"]
  /\ Step(p)
  /\ UNCHANGED <<users, tables, seq, req, arg, result, ncalls, nfaults, env, loc>>

(* transaction.commit(); return                                            *)
FollowUserCommit(p) ==
  /\ pc[p] = "fo_commit"
  /\ CommitTx(Outer(p))
  /\ pc' = [pc EXCEPT ![p] = "done"]
  /\ result' = [result EXCEPT ![p] = "ok"]
  /\ Step(p)
  /\ UNCHANGED <<seq, req, arg, ncalls, nfaults, env, loc>>

UnfollowUserCall(p) ==
  \E f \in Users, g \in Users \cup {NoUser} :
    Begin(p, [op |-> "unfollowUser", user_id |-> f, target |-> g], NoArg, "un_find")

(* The transaction opens;                                                  *)
(* followRelation = UserFollow.findOne({ where: { follower_id, following_id } }) *)
UnfollowUserFind(p) ==
  /\ pc[p] = "un_find"
  /\ LET found == FollowsOf(LiveRows("userFollows", Outer(p)), req[p].user_id, req[p].target)
     IN IF found = {} THEN Throw(p, "NotFollowing")
        ELSE /\ loc' = [loc EXCEPT ![p].follow_id = (CHOOSE r \in found : TRUE).id]
             /\ pc' = [pc EXCEPT ![p] = "un_destroy"]
             /\ Step(p)
             /\ UNCHANGED <<users, txUsers, tables, seq, req, arg, result, ncalls, env>>
  /\ UNCHANGED nfaults

(* followRelation.destroy({ transaction })                                 *)
UnfollowUserDestroy(p) ==
  /\ pc[p] = "un_destroy"
  /\ DeleteRow("userFollows", Outer(p), loc[p].follow_id)
  /\ pc' = [pc EXCEPT ![p] = "un_follower"]
  /\ Step(p)
  /\ UNCHANGED <<users, txUsers, seq, req, arg, result, ncalls, nfaults, env, loc>>

(* follower = User.findByPk(follower_id, { transaction })                  *)
UnfollowUserFollower(p) ==
  /\ pc[p] = "un_follower"
  /\ loc' = [loc EXCEPT ![p].totalFollowing =
               UserRow(req[p].user_id, Outer(p)).totalFollowing]
  /\ pc' = [pc EXCEPT ![p] = "un_following"]
  /\ Step(p)
  /\ UNCHANGED <<users, txUsers, tables, seq, req, arg, result, ncalls, nfaults, env>>

(* Math.max(0, n - 1)                                                      *)
DecrementToZero(n) == IF n - 1 > 0 THEN n - 1 ELSE 0

(* follower.update({ totalFollowing: Math.max(0, follower.totalFollowing - 1) }, *)
(* { transaction })                                                        *)
UnfollowUserFollowing(p) ==
  /\ pc[p] = "un_following"
  /\ SetUser(Outer(p), req[p].user_id, "totalFollowing",
             DecrementToZero(loc[p].totalFollowing))
  /\ pc' = [pc EXCEPT ![p] = "un_target"]
  /\ Step(p)
  /\ UNCHANGED <<users, tables, seq, req, arg, result, ncalls, nfaults, env, loc>>

(* targetUser = User.findByPk(target_user_id, { transaction })             *)
UnfollowUserTarget(p) ==
  /\ pc[p] = "un_target"
  /\ loc' = [loc EXCEPT ![p].totalFollower =
               UserRow(req[p].target, Outer(p)).totalFollower]
  /\ pc' = [pc EXCEPT ![p] = "un_target_update"]
  /\ Step(p)
  /\ UNCHANGED <<users, txUsers, tables, seq, req, arg, result, ncalls, nfaults, env>>

(* targetUser.update({ totalFollower: Math.max(0, targetUser.totalFollower - 1) }, *)
(* { transaction })                                                        *)
UnfollowUserTargetUpdate(p) ==
  /\ pc[p] = "un_target_update"
  /\ SetUser(Outer(p), req[p].target, "totalFollower",
             DecrementToZero(loc[p].totalFollower))
  /\ pc' = [pc EXCEPT ![p] = "un_commit"]
  /\ Step(p)
  /\ UNCHANGED <<users, tables, seq, req, arg, result, ncalls, nfaults, env, loc>>

(* transaction.commit(); return                                            *)
UnfollowUserCommit(p) ==
  /\ pc[p] = "un_commit"
  /\ CommitTx(Outer(p))
  /\ pc' = [pc EXCEPT ![p] = "done"]
  /\ result' = [result EXCEPT ![p] = "ok"]
  /\ Step(p)
  /\ UNCHANGED <<seq, req, arg, ncalls, nfaults, env, loc>>

(* SocialMediaService.togglePostLike(user_id, post_id)                     *)

(* The unique index on (user_id, related_to_id, related_to_type); every    *)
(* like here is of type Post.                                              *)
LikesOf(rows, u, pt) == {r \in rows : r.user_id = u /\ r.related_to_id = pt}
LikePending(t, u, pt) ==
  \E r \in LikesOf(tables.userLikes, u, pt) : r.xid \notin {Committed, t}

TogglePostLikeCall(p) ==
  \E u \in Users, pt \in Posts \cup {NoPost} :
    Begin(p, [op |-> "togglePostLike", user_id |-> u, target |-> pt], NoArg, "tl_find")

(* The transaction opens; post = Post.findByPk(post_id, { transaction }):  *)
(* the handler keeps the row.                                              *)
TogglePostLikeFind(p) ==
  /\ pc[p] = "tl_find"
  /\ IF req[p].target \notin Posts THEN Throw(p, "PostNotFound")
     ELSE /\ loc' = [loc EXCEPT ![p].total_like =
                       CurrentRow("posts", req[p].target, Outer(p)).total_like]
          /\ pc' = [pc EXCEPT ![p] = "tl_check"]
          /\ Step(p)
          /\ UNCHANGED <<users, txUsers, tables, seq, req, arg, result, ncalls, env>>
  /\ UNCHANGED nfaults

(* existingLike = UserLike.findOne({ where: { user_id, related_to_id,      *)
(* related_to_type }, transaction }); like_id 0 stands for null.           *)
TogglePostLikeCheck(p) ==
  /\ pc[p] = "tl_check"
  /\ LET found == LikesOf(LiveRows("userLikes", Outer(p)), req[p].user_id, req[p].target)
     IN loc' = [loc EXCEPT ![p].like_id =
                  IF found = {} THEN 0 ELSE (CHOOSE r \in found : TRUE).id]
  /\ pc' = [pc EXCEPT ![p] = IF loc'[p].like_id = 0 THEN "tl_create" ELSE "tl_destroy"]
  /\ Step(p)
  /\ UNCHANGED <<users, txUsers, tables, seq, req, arg, result, ncalls, nfaults, env>>

(* existingLike.destroy({ transaction });                                  *)
(* newLikeCount = Math.max(0, post.total_like - 1)                         *)
TogglePostLikeDestroy(p) ==
  /\ pc[p] = "tl_destroy"
  /\ DeleteRow("userLikes", Outer(p), loc[p].like_id)
  /\ loc' = [loc EXCEPT ![p].total_like = DecrementToZero(@)]
  /\ pc' = [pc EXCEPT ![p] = "tl_update"]
  /\ Step(p)
  /\ UNCHANGED <<users, txUsers, seq, req, arg, result, ncalls, nfaults, env>>

(* UserLike.create({ user_id, related_to_id, related_to_type }, { transaction }); *)
(* newLikeCount = post.total_like + 1                                      *)
TogglePostLikeCreate(p) ==
  /\ pc[p] = "tl_create"
  /\ ~LikePending(Outer(p), req[p].user_id, req[p].target)
  /\ IF LikesOf(LiveRows("userLikes", Outer(p)), req[p].user_id, req[p].target) # {}
     THEN Throw(p, "UniqueViolation")
     ELSE /\ InsertRow("userLikes", Outer(p),
                       [user_id |-> req[p].user_id, related_to_id |-> req[p].target,
                        deleted |-> FALSE])
          /\ loc' = [loc EXCEPT ![p].total_like = @ + 1]
          /\ pc' = [pc EXCEPT ![p] = "tl_update"]
          /\ Step(p)
          /\ UNCHANGED <<users, txUsers, req, arg, result, ncalls, env>>
  /\ UNCHANGED nfaults

(* post.update({ total_like: newLikeCount }, { transaction })              *)
TogglePostLikeUpdate(p) ==
  /\ pc[p] = "tl_update"
  /\ UpdateRow("posts", Outer(p), req[p].target,
               [CurrentRow("posts", req[p].target, Outer(p)) EXCEPT
                  !.total_like = loc[p].total_like])
  /\ pc' = [pc EXCEPT ![p] = "tl_commit"]
  /\ Step(p)
  /\ UNCHANGED <<users, txUsers, seq, req, arg, result, ncalls, nfaults, env, loc>>

(* transaction.commit(); return                                            *)
TogglePostLikeCommit(p) ==
  /\ pc[p] = "tl_commit"
  /\ CommitTx(Outer(p))
  /\ pc' = [pc EXCEPT ![p] = "done"]
  /\ result' = [result EXCEPT ![p] = "ok"]
  /\ Step(p)
  /\ UNCHANGED <<seq, req, arg, ncalls, nfaults, env, loc>>

(* ------------------------------ controllers ---------------------------- *)
(* GamificationController: the handler's catch block turns the Error the   *)
(* service threw into the status code of the response.                     *)

(* error.message of the Error that ends a call of op with err.             *)
ErrorMessage(op, err) ==
  CASE err = "PlaceNotFound" /\ op = "ReviewService.createReview" ->
         "Error creating review: Place not found"
    [] err = "UserNotFound" /\ op = "ReviewService.createReview" ->
         "Error creating review: User not found"
    [] err = "AlreadyReviewed" /\ op = "ReviewService.createReview" ->
         "Error creating review: User has already reviewed this place"
    [] err = "PlaceNotFound" /\ op # "ReviewService.createReview" -> "Place not found"
    [] err = "UserNotFound" /\ op # "ReviewService.createReview" -> "User not found"
    [] err = "AlreadyReviewed" /\ op # "ReviewService.createReview" ->
         "You have already reviewed this place this month."
    [] err = "PlaceInactive" -> "This place is currently not active."
    [] err = "AlreadyCheckedIn" -> "You have already checked in at this place this month."
    [] err = "NotFound" /\ op = "grantAchievement" -> "User or achievement not found"
    [] err = "NotFound" /\ op = "completeChallenge" -> "User or challenge not found"
    [] err = "NotFound" /\ op \notin {"grantAchievement", "completeChallenge"} ->
         "User or reward not found"
    [] err = "AlreadyGranted" /\ op = "grantAchievement" -> "You already have this achievement."
    [] err = "AlreadyGranted" /\ op # "grantAchievement" ->
         "You have already completed this challenge."
    [] err = "InsufficientCoins" -> "Koin tidak mencukupi."
    [] err = "OutOfStock" -> "Stok hadiah habis."
    [] err = "RewardInactive" -> "Hadiah ini tidak aktif."
    [] err = "InsufficientFunds" -> "User does not have enough coins."
    [] OTHER -> err

(* error.statusCode: createCheckin sets it on the errors it makes itself;  *)
(* 0 stands for undefined.                                                 *)
ErrorStatusCode(op, err) ==
  IF op # "createCheckin" THEN 0
  ELSE IF err \in {"PlaceNotFound", "UserNotFound"} THEN 404
  ELSE IF err \in {"PlaceInactive", "AlreadyCheckedIn"} THEN 400
  ELSE 0

(* The status code of the response to a call of op that ended with err.    *)
(* The controller's createReview calls ReviewService.createReview.         *)
HttpStatus(op, err) ==
  LET message == ErrorMessage(op, err) IN
  CASE op = "createCheckin" ->
         IF ErrorStatusCode(op, err) # 0 THEN ErrorStatusCode(op, err) ELSE 500
    [] op = "ReviewService.createReview" ->
         IF message = "Place not found" THEN 404 ELSE 500
    [] op = "grantAchievement" ->
         IF message = "User or achievement not found" THEN 404
         ELSE IF message = "You already have this achievement." THEN 400
         ELSE 500
    [] op = "completeChallenge" ->
         IF message = "User or challenge not found" THEN 404
         ELSE IF message = "You already completed this challenge." THEN 400
         ELSE 500
    [] op = "redeemReward" ->
         IF message = "User or reward not found" THEN 404
         ELSE IF message = "Insufficient coins" \/ message = "Reward out of stock" THEN 400
         ELSE 500
    [] OTHER -> 500

(* ------------------------------ faults --------------------------------- *)
(* The positions at which the next statement writes to the database: the   *)
(* statement (or the commit) may be rejected by the database, which throws *)
(* into the handler's catch block.                                         *)
FaultPoints ==
  {"ac_increment", "ac_create", "ac_commit",
   "uc_decrement", "uc_create", "uc_commit",
   "ae_increment", "ae_create", "ae_commit",
   "ci_create", "ci_update", "ci_coin", "ci_exp", "ci_commit", "ci_load",
   "ga_create", "ga_increment", "ga_commit",
   "ch_create", "ch_increment", "ch_commit",
   "rr_decrement", "rr_create", "rr_commit",
   "cr_create", "cr_user", "cr_placeinc", "cr_update", "cr_commit",
   "rs_create", "rs_load", "rd_update",
   "fo_create", "fo_following", "fo_target", "fo_commit",
   "un_destroy", "un_following", "un_target_update", "un_commit",
   "tl_destroy", "tl_create", "tl_update", "tl_commit",
   "ru_update", "ru_load"}

DbFault(p) ==
  /\ pc[p] \in FaultPoints
  /\ nfaults < MaxFaults
  /\ nfaults' = nfaults + 1
  /\ Throw(p, "TransactionFailed")

(* ------------------------------ specifications ------------------------- *)
Mutators(p) ==
  \/ AddCoinsEnter(p) \/ AddCoinsIncrement(p) \/ AddCoinsCreate(p) \/ AddCoinsCommit(p)
  \/ UseCoinsFind(p) \/ UseCoinsDecrement(p) \/ UseCoinsCreate(p) \/ UseCoinsCommit(p)
  \/ AddExpEnter(p) \/ AddExpIncrement(p) \/ AddExpCreate(p) \/ AddExpCommit(p)

(* The balance mutators alone: any interleaving of addCoins, useCoins and  *)
(* addExp requests.                                                        *)
NextLedger ==
  \E p \in Procs :
    \/ AddCoinsCall(p) \/ UseCoinsCall(p) \/ AddExpCall(p)
    \/ Mutators(p)
    \/ DbFault(p)
    \/ Return(p)

SpecLedger == Init /\ [][NextLedger]_vars

(* Check-ins alone: any interleaving of createCheckin requests with the    *)
(* passing of time.                                                        *)
NextCheckin ==
  \/ \E p \in Procs :
       \/ CreateCheckinCall(p)
       \/ CreateCheckinPlace(p) \/ CreateCheckinCheck(p) \/ CreateCheckinUser(p)
       \/ CreateCheckinCreate(p) \/ CreateCheckinUpdate(p) \/ CreateCheckinCoin(p)
       \/ CreateCheckinExp(p) \/ CreateCheckinCommit(p) \/ CreateCheckinLoad(p)
       \/ DbFault(p)
       \/ Return(p)
  \/ Tick

SpecCheckin == Init /\ [][NextCheckin]_vars

(* Grants alone: any interleaving of grantAchievement and                  *)
(* completeChallenge requests, each with the balance mutator it calls.     *)
NextGrant ==
  \E p \in Procs :
    \/ GrantAchievementCall(p) \/ CompleteChallengeCall(p)
    \/ GrantAchievementFind(p) \/ GrantAchievementCheck(p) \/ GrantAchievementCreate(p)
    \/ GrantAchievementIncrement(p) \/ GrantAchievementCommit(p)
    \/ CompleteChallengeFind(p) \/ CompleteChallengeCheck(p) \/ CompleteChallengeCreate(p)
    \/ CompleteChallengeIncrement(p) \/ CompleteChallengeCommit(p)
    \/ AddCoinsEnter(p) \/ AddCoinsIncrement(p) \/ AddCoinsCreate(p) \/ AddCoinsCommit(p)
    \/ AddExpEnter(p) \/ AddExpIncrement(p) \/ AddExpCreate(p) \/ AddExpCommit(p)
    \/ DbFault(p)
    \/ Return(p)

SpecGrant == Init /\ [][NextGrant]_vars

(* Redemptions alone: any interleaving of redeemReward requests, each with *)
(* the useCoins it calls.                                                  *)
NextRedeem ==
  \E p \in Procs :
    \/ RedeemRewardCall(p)
    \/ RedeemRewardFind(p) \/ RedeemRewardDecrement(p) \/ RedeemRewardCreate(p)
    \/ RedeemRewardCommit(p)
    \/ UseCoinsFind(p) \/ UseCoinsDecrement(p) \/ UseCoinsCreate(p) \/ UseCoinsCommit(p)
    \/ DbFault(p)
    \/ Return(p)

SpecRedeem == Init /\ [][NextRedeem]_vars

(* Reviews: any interleaving of review submissions through either service  *)
(* and soft deletions, while time passes.  Of addCoins only its first step *)
(* is a disjunct, and CreateReviewExp and CreateReviewCommit are none:     *)
(* AddCoinsIncrement is never enabled for a createReview request, since    *)
(* it waits for the users row that the request's own transaction holds     *)
(* since CreateReviewUser, so the request stays there until the statement  *)
(* is given up (DbFault).                                                  *)
NextReview ==
  \/ \E p \in Procs :
       \/ CreateReviewCall(p)
       \/ CreateReviewPlace(p) \/ CreateReviewCheck(p) \/ CreateReviewCreate(p)
       \/ CreateReviewUser(p) \/ CreateReviewPlaceIncrement(p) \/ CreateReviewStats(p)
       \/ CreateReviewUpdate(p)
       \/ AddCoinsEnter(p)
       \/ RsCreateReviewCall(p)
       \/ RsCreateReviewFind(p) \/ RsCreateReviewCheck(p) \/ RsCreateReviewCreate(p)
       \/ RsCreateReviewLoad(p)
       \/ DeleteReviewCall(p)
       \/ DeleteReviewFind(p) \/ DeleteReviewUpdate(p)
       \/ UpdatePlaceStatisticsQuery(p) \/ UpdatePlaceStatisticsUpdate(p)
       \/ StatisticsFault(p)
       \/ DbFault(p)
       \/ Return(p)
  \/ Tick

SpecReview == Init /\ [][NextReview]_vars

(* ReviewService alone: review submissions and soft deletions, whose       *)
(* statements never look at the clock.                                     *)
NextRating ==
  \E p \in Procs :
    \/ RsCreateReviewCall(p)
    \/ RsCreateReviewFind(p) \/ RsCreateReviewCheck(p) \/ RsCreateReviewCreate(p)
    \/ RsCreateReviewLoad(p)
    \/ DeleteReviewCall(p)
    \/ DeleteReviewFind(p) \/ DeleteReviewUpdate(p)
    \/ UpdatePlaceStatisticsQuery(p) \/ UpdatePlaceStatisticsUpdate(p)
    \/ StatisticsFault(p)
    \/ DbFault(p)
    \/ Return(p)

SpecRating == Init /\ [][NextRating]_vars

(* ReviewService with updateReview: submissions, soft deletions and        *)
(* changes of reviews.                                                     *)
NextRevise ==
  \/ NextRating
  \/ \E p \in Procs :
       \/ UpdateReviewCall(p)
       \/ UpdateReviewFind(p) \/ UpdateReviewUpdate(p) \/ UpdateReviewLoad(p)

SpecRevise == Init /\ [][NextRevise]_vars

(* The follow relation: any interleaving of followUser and unfollowUser    *)
(* requests.                                                               *)
NextFollow ==
  \E p \in Procs :
    \/ FollowUserCall(p) \/ UnfollowUserCall(p)
    \/ FollowUserFind(p) \/ FollowUserCheck(p) \/ FollowUserCreate(p)
    \/ FollowUserFollower(p) \/ FollowUserFollowing(p) \/ FollowUserTarget(p)
    \/ FollowUserCommit(p)
    \/ UnfollowUserFind(p) \/ UnfollowUserDestroy(p) \/ UnfollowUserFollower(p)
    \/ UnfollowUserFollowing(p) \/ UnfollowUserTarget(p) \/ UnfollowUserTargetUpdate(p)
    \/ UnfollowUserCommit(p)
    \/ DbFault(p)
    \/ Return(p)

SpecFollow == Init /\ [][NextFollow]_vars

(* Likes: any interleaving of togglePostLike requests.                     *)
NextLike ==
  \E p \in Procs :
    \/ TogglePostLikeCall(p)
    \/ TogglePostLikeFind(p) \/ TogglePostLikeCheck(p) \/ TogglePostLikeDestroy(p)
    \/ TogglePostLikeCreate(p) \/ TogglePostLikeUpdate(p) \/ TogglePostLikeCommit(p)
    \/ DbFault(p)
    \/ Return(p)

SpecLike == Init /\ [][NextLike]_vars

(* Rewarded review submissions: any interleaving of                        *)
(* GamificationService.createReview requests with addCoins requests, no    *)
(* statement being rejected.  The steps of a createReview request after    *)
(* its call of addCoins has returned are no disjuncts: addCoins never      *)
(* returns to it.                                                          *)
PayoutSteps(p) ==
  \/ CreateReviewPlace(p) \/ CreateReviewCheck(p) \/ CreateReviewCreate(p)
  \/ CreateReviewUser(p) \/ CreateReviewPlaceIncrement(p) \/ CreateReviewStats(p)
  \/ CreateReviewUpdate(p)
  \/ AddCoinsEnter(p) \/ AddCoinsIncrement(p) \/ AddCoinsCreate(p) \/ AddCoinsCommit(p)
  \/ Return(p)

NextPayout ==
  \E p \in Procs :
    \/ CreateReviewCall(p) \/ AddCoinsCall(p)
    \/ PayoutSteps(p)

SpecPayout == Init /\ [][NextPayout]_vars

(* The event loop runs the continuation of every request whose awaited     *)
(* statement can complete.                                                 *)
FairPayout == SpecPayout /\ \A p \in Procs : WF_vars(PayoutSteps(p))

(* Check-ins beside the balance mutators: any interleaving of              *)
(* createCheckin, addCoins, useCoins and addExp requests, no statement     *)
(* being rejected.                                                         *)
NextConcurrent ==
  \E p \in Procs :
    \/ CreateCheckinCall(p) \/ AddCoinsCall(p) \/ UseCoinsCall(p) \/ AddExpCall(p)
    \/ CreateCheckinPlace(p) \/ CreateCheckinCheck(p) \/ CreateCheckinUser(p)
    \/ CreateCheckinCreate(p) \/ CreateCheckinUpdate(p) \/ CreateCheckinCoin(p)
    \/ CreateCheckinExp(p) \/ CreateCheckinCommit(p) \/ CreateCheckinLoad(p)
    \/ Mutators(p)
    \/ Return(p)

SpecConcurrent == Init /\ [][NextConcurrent]_vars

(* ------------------------------ ledger properties ---------------------- *)
CoinRowsOf(u) == {r \in CommittedRows(tables.coinTx) : r.user_id = u}
ExpRowsOf(u) == {r \in CommittedRows(tables.expTx) : r.user_id = u}

(* C1: balance conservation.  In every state reached by addCoins, useCoins *)
(* and addExp calls, successful or failing, every user's totalCoin is the  *)
(* sum of the amounts of the user's committed CoinTransaction rows and     *)
(* totalExp the sum of the user's committed ExpTransaction rows.           *)
C1_BalanceConservation ==
  \A u \in Users :
    /\ users[u].totalCoin = SumAmounts(CoinRowsOf(u))
    /\ users[u].totalExp = SumAmounts(ExpRowsOf(u))

(* A spend has committed and a call has failed at a database statement.    *)
C1_Witness ==
  /\ nfaults > 0
  /\ \E r \in CommittedRows(tables.coinTx) : r.amount < 0

(* C2: no negative balances.  The step of useCoins that reads a user whose *)
(* totalCoin is below the amount ends the call with the insufficient-funds *)
(* error, and leaves the users rows and the tables as they were.           *)
C2_InsufficientSpendRejected ==
  [][\A p \in Procs :
       (/\ pc[p] = "uc_find"
        /\ pc'[p] # "uc_find"
        /\ arg[p].user_id \in Users
        /\ users[arg[p].user_id].totalCoin < arg[p].amount)
       => /\ pc'[p] = "done"
          /\ result'[p] = "InsufficientFunds"
          /\ users' = users
          /\ tables' = tables]_vars

(* A useCoins call has ended with the insufficient-funds error.            *)
C2_Witness ==
  \E p \in Procs :
    /\ pc[p] = "done"
    /\ req[p].op = "useCoins"
    /\ result[p] = "InsufficientFunds"

(* C3: the spend re-validates the balance inside its transaction, so that  *)
(* no interleaving of useCoins calls drives a user's totalCoin below zero. *)
C3_NoOverspend == \A u \in Users : users[u].totalCoin >= 0

(* ------------------------------ check-in properties -------------------- *)
sameCheckin(r, u, pl, month) ==
  r.user_id = u /\ r.place_id = pl /\ MonthOf(r.created_at) = month

(* C4: monthly eligibility.  A createCheckin call made after every other   *)
(* call has returned, when a Checkin row of the same user and place is     *)
(* committed, and ending in the calendar month of that row, ends with the  *)
(* already-checked-in error and leaves the database as it was.             *)
C4_SecondCheckinSameMonthFails ==
  \A p \in Procs :
    (/\ frame.p = p
     /\ frame.quiet
     /\ nfaults = 0
     /\ pc[p] = "done"
     /\ req[p].op = "createCheckin"
     /\ \E r \in frame.db.tables.checkins :
          sameCheckin(r, req[p].user_id, req[p].target, MonthOf(clock)))
    => /\ result[p] = "AlreadyCheckedIn"
       /\ Db = frame.db

(* C5: check-in uniqueness.  No two committed Checkin rows of one user and *)
(* place lie in the same calendar month.                                   *)
C5_OneCheckinPerMonth ==
  \A r1, r2 \in CommittedRows(tables.checkins) :
    sameCheckin(r1, r2.user_id, r2.place_id, MonthOf(r2.created_at)) => r1 = r2

(* ------------------------------ grant properties ----------------------- *)
GrantsOf(u, a) ==
  {r \in CommittedRows(tables.userAchievements) : r.user_id = u /\ r.achievement_id = a}
CompletionsOf(u, c) ==
  {r \in CommittedRows(tables.userChallenges) : r.user_id = u /\ r.challenge_id = c}
PayoutsOf(tbl, u, type, id) ==
  {r \in CommittedRows(tables[tbl]) :
     r.user_id = u /\ r.related_to_type = type /\ r.related_to_id = id}

(* Both workers have run grantAchievement(u, a) to its end, in whatever    *)
(* interleaving, and the database rejected no statement.                   *)
BothGranted(u, a) ==
  /\ nfaults = 0
  /\ \A p \in Procs :
       /\ pc[p] = "done"
       /\ req[p] = [op |-> "grantAchievement", user_id |-> u, target |-> a]

GrantedOnce(u, a) ==
  /\ Cardinality(GrantsOf(u, a)) = 1
  /\ Cardinality(PayoutsOf("coinTx", u, "Achievement", a)) = 1
  /\ \A r \in PayoutsOf("coinTx", u, "Achievement", a) :
       r.amount = AchievementRow(a).coin_reward
  /\ users[u].totalCoin = SumAmounts(CoinRowsOf(u))

(* C6: grant idempotency under concurrency.  For every achievement, two    *)
(* grantAchievement(u, a) calls leave exactly one UserAchievement row, one *)
(* CoinTransaction for (Achievement, a) and one payout in totalCoin, in    *)
(* every interleaving.                                                     *)
C6_GrantOnce_AnyAchievement ==
  \A u \in Users, a \in Achievements : BothGranted(u, a) => GrantedOnce(u, a)

ActiveGrant(u, a) == \E r \in GrantsOf(u, a) : r.status
ActiveCompletion(u, c) == \E r \in CompletionsOf(u, c) : r.status

(* C7: re-invocation after a successful grant.  A grant that succeeded     *)
(* leaves a committed active row, such a row stays, and a call for a pair  *)
(* that has one takes its two steps, the lookup and the check, without     *)
(* changing the users rows or the tables, and ends with the                *)
(* already-granted error.  Likewise for completeChallenge.                 *)
C7_RegrantRejected ==
  [][/\ \A u \in Users, a \in Achievements :
          ActiveGrant(u, a) => GrantsOf(u, a) \subseteq GrantsOf(u, a)'
     /\ \A u \in Users, c \in Challenges :
          ActiveCompletion(u, c) => CompletionsOf(u, c) \subseteq CompletionsOf(u, c)'
     /\ \A p \in Procs :
          /\ (pc[p] = "ga_commit" /\ pc'[p] = "done" /\ result'[p] = "ok")
             => ActiveGrant(req[p].user_id, req[p].target)'
          /\ (pc[p] = "ch_commit" /\ pc'[p] = "done" /\ result'[p] = "ok")
             => ActiveCompletion(req[p].user_id, req[p].target)'
          /\ (/\ pc[p] \in {"ga_find", "ga_check"}
              /\ pc'[p] # pc[p]
              /\ ActiveGrant(req[p].user_id, req[p].target))
             => /\ users' = users
                /\ tables' = tables
                /\ pc[p] = "ga_find" => pc'[p] = "ga_check"
                /\ pc[p] = "ga_check" => pc'[p] = "done" /\ result'[p] = "AlreadyGranted"
          /\ (/\ pc[p] \in {"ch_find", "ch_check"}
              /\ pc'[p] # pc[p]
              /\ ActiveCompletion(req[p].user_id, req[p].target))
             => /\ users' = users
                /\ tables' = tables
                /\ pc[p] = "ch_find" => pc'[p] = "ch_check"
                /\ pc[p] = "ch_check" => pc'[p] = "done" /\ result'[p] = "AlreadyGranted"]_vars

(* A second grantAchievement for a granted pair has been turned away.      *)
C7_Witness ==
  \E p \in Procs :
    /\ pc[p] = "done"
    /\ req[p].op = "grantAchievement"
    /\ result[p] = "AlreadyGranted"
    /\ Cardinality(GrantsOf(req[p].user_id, req[p].target)) = 1

(* C8: grants are never partially applied.  When a grantAchievement or     *)
(* completeChallenge call that no other request interleaved with ends with *)
(* the error of its payout (addCoins or addExp refusing the amount), the   *)
(* grant row does not exist and totalAchievement and totalChallenge have   *)
(* the values they had before the call.                                    *)
C8_FailedPayoutUndoesGrant ==
  \A p \in Procs :
    (/\ frame.p = p
     /\ pc[p] = "done"
     /\ req[p].op \in {"grantAchievement", "completeChallenge"}
     /\ result[p] = "AmountInvalid")
    => /\ req[p].op = "grantAchievement"
          => /\ GrantsOf(req[p].user_id, req[p].target) = {}
             /\ users[req[p].user_id].totalAchievement
                  = frame.db.users[req[p].user_id].totalAchievement
       /\ req[p].op = "completeChallenge"
          => /\ CompletionsOf(req[p].user_id, req[p].target) = {}
             /\ users[req[p].user_id].totalChallenge
                  = frame.db.users[req[p].user_id].totalChallenge

(* ------------------------------ redemption properties ------------------ *)
RedemptionsOf(r) == {x \in CommittedRows(tables.userRewards) : x.reward_id = r}

(* C9: redemption stock.  The stock of a reward is never below zero, and   *)
(* when the two workers have redeemed the reward of stock InitStock for    *)
(* two different users to the end, with no statement rejected, no more     *)
(* than InitStock redemptions of it are recorded.                          *)
C9_StockNeverOversold ==
  /\ \A r \in Rewards : rewards[r].stock # <<>> => rewards[r].stock[1] >= 0
  /\ (/\ nfaults = 0
      /\ \A p \in Procs : pc[p] = "done" /\ req[p].op = "redeemReward" /\ req[p].target = 1
      /\ \A p, q \in Procs : p # q => req[p].user_id # req[q].user_id)
     => Cardinality(RedemptionsOf(1)) <= InitStock

(* C10: redemption is atomic.  When a redeemReward call that no other      *)
(* request interleaved with ends with an error, the users rows, the        *)
(* rewards rows and the tables are as they were before the call.           *)
C10_FailedRedeemChangesNothing ==
  \A p \in Procs :
    (/\ frame.p = p
     /\ pc[p] = "done"
     /\ req[p].op = "redeemReward"
     /\ result[p] # "ok")
    => Db = frame.db

(* C11: redeemReward validation.  The step of redeemReward that has read   *)
(* the user and the reward ends the call with an error, leaving the users  *)
(* rows, the rewards rows and the tables as they were, when the balance is *)
(* below coin_requirement, when stock is a number <= 0 or when the reward  *)
(* is not active; the error names one of the tests that failed; and the    *)
(* call goes on to useCoins only when all three pass.                      *)
C11_ValidationRejects ==
  [][\A p \in Procs :
       (/\ pc[p] = "rr_find"
        /\ pc'[p] # "rr_find"
        /\ req[p].user_id \in Users
        /\ req[p].target \in Rewards)
       => LET r == rewards[req[p].target]
              short == users[req[p].user_id].totalCoin < r.coin_requirement
              out == r.stock # <<>> /\ r.stock[1] <= 0
              off == ~r.status
          IN /\ (short \/ out \/ off)
                => /\ pc'[p] = "done"
                   /\ \/ short /\ result'[p] = "InsufficientCoins"
                      \/ out /\ result'[p] = "OutOfStock"
                      \/ off /\ result'[p] = "RewardInactive"
                   /\ users' = users
                   /\ rewards' = rewards
                   /\ tables' = tables
             /\ pc'[p] = "uc_find" => ~(short \/ out \/ off)]_vars

(* Each of the three errors has ended a redeemReward call: the reward ran  *)
(* out, a user spent the coins, and the inactive reward was asked for.     *)
C11_Witness ==
  /\ \E p \in Procs :
       /\ pc[p] = "done"
       /\ req[p].op = "redeemReward"
       /\ result[p] \in {"InsufficientCoins", "OutOfStock", "RewardInactive"}
  /\ \E r \in Rewards : rewards[r].stock = <<0>>

(* C12: unlimited stock.  A redeemReward call that nothing interleaved     *)
(* with and no statement of which was rejected, by a user with enough      *)
(* coins for an active reward whose stock is null, succeeds and leaves the *)
(* stock null.                                                             *)
C12_NullStockRedeemable ==
  \A p \in Procs :
    (/\ frame.p = p
     /\ frame.quiet
     /\ nfaults = 0
     /\ pc[p] = "done"
     /\ req[p].op = "redeemReward"
     /\ req[p].user_id \in Users
     /\ req[p].target \in Rewards
     /\ frame.db.rewards[req[p].target].stock = <<>>
     /\ frame.db.rewards[req[p].target].status
     /\ frame.db.users[req[p].user_id].totalCoin
          >= frame.db.rewards[req[p].target].coin_requirement)
    => /\ result[p] = "ok"
       /\ rewards[req[p].target].stock = <<>>

(* C13: redeem once per pair.  No user holds two active UserReward rows of *)
(* one reward.                                                             *)
C13_RedeemOncePerPair ==
  \A u \in Users, r \in Rewards :
    Cardinality({x \in RedemptionsOf(r) : x.user_id = u /\ x.status}) <= 1

(* ------------------------------ check-in effects ----------------------- *)
NewRows(tbl) == CommittedRows(tables[tbl]) \ frame.db.tables[tbl]

(* C14: effects of a successful check-in.  A createCheckin call that        *)
(* nothing interleaved with and that succeeded has raised the user's       *)
(* totalCoin by coinsEarned, totalExp by expEarned and totalCheckin by 1,  *)
(* and has added exactly one Checkin row, one CoinTransaction of           *)
(* +coinsEarned and one ExpTransaction of +expEarned, both with cause      *)
(* (Checkin, id of the new row).                                           *)
C14_CheckinEffects ==
  \A p \in Procs :
    (/\ frame.p = p
     /\ pc[p] = "done"
     /\ req[p].op = "createCheckin"
     /\ result[p] = "ok")
    => LET u == req[p].user_id
           old == frame.db.users[u]
       IN /\ users = [frame.db.users EXCEPT
                        ![u] = [old EXCEPT !.totalCoin = old.totalCoin + coinsEarned,
                                           !.totalExp = old.totalExp + expEarned,
                                           !.totalCheckin = old.totalCheckin + 1]]
          /\ \E c \in NewRows("checkins") :
               /\ NewRows("checkins") = {c}
               /\ c.user_id = u /\ c.place_id = req[p].target
               /\ \E t \in NewRows("coinTx") :
                    /\ NewRows("coinTx") = {t}
                    /\ t.user_id = u /\ t.amount = coinsEarned
                    /\ t.related_to_type = "Checkin" /\ t.related_to_id = c.id
               /\ \E t \in NewRows("expTx") :
                    /\ NewRows("expTx") = {t}
                    /\ t.user_id = u /\ t.amount = expEarned
                    /\ t.related_to_type = "Checkin" /\ t.related_to_id = c.id

(* A check-in that nothing interleaved with has succeeded.                 *)
C14_Witness ==
  \E p \in Procs :
    /\ frame.p = p
    /\ pc[p] = "done"
    /\ req[p].op = "createCheckin"
    /\ result[p] = "ok"
    /\ users[req[p].user_id].totalCheckin = 1

(* C15: a failed check-in changes nothing.  When a createCheckin call that *)
(* nothing interleaved with ends with an error, whatever step failed, the  *)
(* users rows and the tables are as they were before the call.             *)
C15_FailedCheckinChangesNothing ==
  \A p \in Procs :
    (/\ frame.p = p
     /\ pc[p] = "done"
     /\ req[p].op = "createCheckin"
     /\ result[p] # "ok")
    => Db = frame.db

(* ------------------------------ mutator effects ------------------------ *)
(* C17: the balance mutators are all-or-nothing and single-effect.  An     *)
(* addCoins, useCoins or addExp call that nothing interleaved with, when   *)
(* it succeeded, has changed the one balance by the signed amount and      *)
(* added exactly one ledger row with that signed amount and the given      *)
(* cause; when it failed, the users rows and the tables are as they were.  *)
C17_MutatorAllOrNothing ==
  \A p \in Procs :
    (/\ frame.p = p
     /\ pc[p] = "done"
     /\ req[p].op \in {"addCoins", "useCoins", "addExp"})
    => IF result[p] # "ok" THEN Db = frame.db
       ELSE LET u == arg[p].user_id
                field == IF req[p].op = "addExp" THEN "totalExp" ELSE "totalCoin"
                tbl == IF req[p].op = "addExp" THEN "expTx" ELSE "coinTx"
                other == IF req[p].op = "addExp" THEN "coinTx" ELSE "expTx"
                signed == IF req[p].op = "useCoins" THEN 0 - arg[p].amount ELSE arg[p].amount
            IN /\ users = [frame.db.users EXCEPT ![u][field] = @ + signed]
               /\ NewRows(other) = {}
               /\ \E t \in NewRows(tbl) :
                    /\ NewRows(tbl) = {t}
                    /\ t.user_id = u /\ t.amount = signed
                    /\ t.related_to_type = arg[p].related_to_type
                    /\ t.related_to_id = arg[p].related_to_id

(* One call has succeeded and another has failed at a database statement.  *)
C17_Witness ==
  /\ nfaults > 0
  /\ \E p \in Procs :
       /\ frame.p = p
       /\ pc[p] = "done"
       /\ req[p].op \in {"addCoins", "useCoins", "addExp"}
       /\ result[p] = "ok"

(* ------------------------------ review properties ---------------------- *)
ReviewOps == {"createReview", "ReviewService.createReview"}

(* C16: a failed review submission changes nothing.  When a review         *)
(* submission, through either service, that nothing interleaved with ends  *)
(* with an error, the users rows and the tables (reviews, place            *)
(* statistics, ledgers) are as they were before the call.                  *)
C16_FailedReviewChangesNothing ==
  \A p \in Procs :
    (/\ frame.p = p
     /\ pc[p] = "done"
     /\ req[p].op \in ReviewOps
     /\ result[p] # "ok")
    => Db = frame.db

(* C18: inactive places reject rewarded actions.  A check-in or a review   *)
(* submission, through either service, by an existing user with a valid    *)
(* rating for a place that is not active, that nothing interleaved with    *)
(* and no statement of which was rejected, ends with the place-inactive    *)
(* error and leaves the users rows and the tables as they were.            *)
C18_InactivePlaceRejects ==
  \A p \in Procs :
    (/\ frame.p = p
     /\ nfaults = 0
     /\ pc[p] = "done"
     /\ req[p].op \in ReviewOps \cup {"createCheckin"}
     /\ req[p].user_id \in Users
     /\ req[p].target \in Places
     /\ req[p].op \in ReviewOps => RatingValid(req[p].rating)
     /\ ~PlaceRow(req[p].target).status)
    => /\ result[p] = "PlaceInactive"
       /\ Db = frame.db

UniquePerMonth(rows) ==
  \A r1, r2 \in rows :
    (/\ r1.user_id = r2.user_id
     /\ r1.place_id = r2.place_id
     /\ MonthOf(r1.created_at) = MonthOf(r2.created_at))
    => r1 = r2

(* C19: monthly uniqueness of reviews.  A review submission made when no   *)
(* other request is in progress and no statement was ever rejected, on     *)
(* reviews that hold at most one row                                       *)
(* (soft-deleted rows included) per user, place and calendar month, leaves *)
(* them so.                                                                *)
C19_OneReviewPerMonth ==
  \A p \in Procs :
    (/\ frame.p = p
     /\ frame.quiet
     /\ nfaults = 0
     /\ pc[p] = "done"
     /\ req[p].op \in ReviewOps
     /\ UniquePerMonth(frame.db.tables.reviews))
    => UniquePerMonth(CommittedRows(tables.reviews))

C24_ConcurrentConservation ==
  (\A p \in Procs : pc[p] \in {"idle", "done"})
  => \A u \in Users :
       /\ users[u].totalCoin = SumAmounts(CoinRowsOf(u))
       /\ users[u].totalExp = SumAmounts(ExpRowsOf(u))
       /\ users[u].totalCheckin
            = Cardinality({r \in CommittedRows(tables.checkins) : r.user_id = u})

(* ------------------------------ grant payout properties ---------------- *)
(* C25: payout only after the grant is committed.  Whenever no request is  *)
(* in progress, also after a failure at any step, a CoinTransaction with   *)
(* cause (Achievement, a) of user u exists only if a committed active      *)
(* UserAchievement row of (u, a) exists, and an ExpTransaction with cause  *)
(* (Challenge, c) only if a committed active UserChallenge row of (u, c).  *)
C25_PayoutOnlyWithGrant ==
  (\A p \in Procs : pc[p] \in {"idle", "done"})
  => /\ \A u \in Users, a \in Achievements :
          PayoutsOf("coinTx", u, "Achievement", a) # {} => ActiveGrant(u, a)
     /\ \A u \in Users, c \in Challenges :
          PayoutsOf("expTx", u, "Challenge", c) # {} => ActiveCompletion(u, c)

(* C29: a grant without a positive reward is refused and leaves nothing.   *)
(* A grantAchievement call for an achievement whose coin_reward is not     *)
(* above 0, or a completeChallenge call for a challenge whose exp_reward   *)
(* is not above 0, by an existing user, that nothing interleaved with and  *)
(* no statement of which was rejected, ends with the amount error of       *)
(* addCoins or addExp and leaves the users rows (totalAchievement,         *)
(* totalChallenge, balances) and the tables (grant rows, ledgers) as they  *)
(* were.                                                                   *)
C29_ZeroRewardGrantLeavesNothing ==
  \A p \in Procs :
    (/\ frame.p = p
     /\ nfaults = 0
     /\ pc[p] = "done"
     /\ req[p].user_id \in Users
     /\ \/ /\ req[p].op = "grantAchievement"
           /\ req[p].target \in Achievements
           /\ AchievementRow(req[p].target).coin_reward <= 0
           /\ ~ActiveGrant(req[p].user_id, req[p].target)
        \/ /\ req[p].op = "completeChallenge"
           /\ req[p].target \in Challenges
           /\ ChallengeRow(req[p].target).exp_reward <= 0
           /\ ~ActiveCompletion(req[p].user_id, req[p].target))
    => /\ result[p] = "AmountInvalid"
       /\ Db = frame.db

(* ------------------------------ payout properties ---------------------- *)
(* C23: every review submission terminates.  A                             *)
(* GamificationService.createReview call eventually ends, committed or     *)
(* rolled back, when every statement that can complete does.               *)
C23_ReviewTerminates ==
  \A p \in Procs : (req[p].op = "createReview") ~> (pc[p] = "done")

(* C26: a rating change triggers recomputation.  After a                   *)
(* ReviewService.updateReview that ran alone, with no statement rejected,  *)
(* and changed the rating of an active review, the avgRating of the place  *)
(* is the mean of the current ratings of its active reviews rounded to two *)
(* decimals.                                                               *)
C26_UpdateRecomputesRating ==
  \A p \in Procs :
    (/\ frame.p = p
     /\ frame.quiet
     /\ nfaults = 0
     /\ pc[p] = "done"
     /\ req[p].op = "updateReview"
     /\ result[p] = "ok"
     /\ \E r \in frame.db.tables.reviews :
          r.id = req[p].target /\ r.status /\ r.rating # req[p].rating)
    => LET pl == loc[p].place_id
           active == {r \in CommittedRows(tables.reviews) : r.place_id = pl /\ r.status}
       IN CurrentRow("places", pl, Committed).avgRating
            = RoundedAverage(SumRatings(active), Cardinality(active))

(* C27: the gamified review flow keeps place aggregates exact.  When       *)
(* GamificationService.createReview has written the place's statistics in  *)
(* its transaction, the avgRating it is to commit is the mean of the       *)
(* ratings of the place's active reviews, the new one included, rounded to *)
(* two decimals, and the totalReview is their number.                      *)
C27_ReviewAggregatesExact ==
  \A p \in Procs :
    (/\ req[p].op = "createReview"
     /\ pc[p] \in {"ac_enter", "ac_increment"})
    => LET pl == req[p].target
           active == {r \in Visible(tables.reviews, Outer(p)) : r.place_id = pl /\ r.status}
       IN /\ CurrentRow("places", pl, Outer(p)).avgRating
               = RoundedAverage(SumRatings(active), Cardinality(active))
          /\ CurrentRow("places", pl, Outer(p)).totalReview = Cardinality(active)

(* C28: review payout uses the place's configured rewards.  The amounts    *)
(* that GamificationService.createReview hands to addCoins and addExp are  *)
(* the coin reward and the exp reward the place is configured with.        *)
C28_ReviewPaysConfiguredRewards ==
  \A p \in Procs :
    (/\ req[p].op = "createReview"
     /\ pc[p] \in {"ac_enter", "ac_increment"})
    => /\ loc[p].coin_reward = <<PlaceRow(req[p].target).coinReward>>
       /\ loc[p].exp_reward = <<PlaceRow(req[p].target).expReward>>

(* ------------------------------ response properties ------------------- *)
NotFoundErrors == {"NotFound", "UserNotFound", "PlaceNotFound"}
DuplicateErrors == {"AlreadyGranted", "AlreadyCheckedIn", "AlreadyReviewed"}
InsufficientErrors == {"InsufficientCoins", "InsufficientFunds", "OutOfStock"}

(* C22: error kinds map to stable status codes.  When a grantAchievement,  *)
(* completeChallenge, redeemReward, createCheckin or createReview request  *)
(* has ended with an error, a not-found error is answered with 404 and a   *)
(* duplicate or insufficient-resource error with 400.                      *)
C22_ErrorStatusCodes ==
  \A p \in Procs :
    (/\ pc[p] = "done"
     /\ req[p].op \in {"grantAchievement", "completeChallenge", "redeemReward",
                       "createCheckin", "ReviewService.createReview"})
    => /\ result[p] \in NotFoundErrors => HttpStatus(req[p].op, result[p]) = 404
       /\ result[p] \in DuplicateErrors \cup InsufficientErrors
          => HttpStatus(req[p].op, result[p]) = 400

(* ------------------------------ social properties --------------------- *)
(* C21: follower and following counts match the follow relation.  Whenever *)
(* no request is in progress, every user's totalFollowing is the number of *)
(* UserFollow rows the user is the follower of, totalFollower the number   *)
(* of rows the user is followed in, and neither is negative.               *)
C21_FollowCountsMatch ==
  (\A p \in Procs : pc[p] \in {"idle", "done"})
  => \A u \in Users :
       /\ users[u].totalFollowing
            = Cardinality({r \in LiveRows("userFollows", Committed) : r.follower_id = u})
       /\ users[u].totalFollower
            = Cardinality({r \in LiveRows("userFollows", Committed) : r.following_id = u})
       /\ users[u].totalFollowing >= 0
       /\ users[u].totalFollower >= 0

(* C30: the like counter of a post matches its like rows.  Whenever no     *)
(* request is in progress, after togglePostLike calls by any users in any  *)
(* interleaving, every post's total_like is the number of its UserLike     *)
(* rows and is not negative.                                               *)
C30_LikeCountMatches ==
  (\A p \in Procs : pc[p] \in {"idle", "done"})
  => \A pt \in Posts :
       /\ CurrentRow("posts", pt, Committed).total_like
            = Cardinality({r \in LiveRows("userLikes", Committed) : r.related_to_id = pt})
       /\ CurrentRow("posts", pt, Committed).total_like >= 0

====
